------------------------- MODULE LoadProtectionProofs -------------------------
(***************************************************************************)
(* Cookies and the rate limiter, for any set of workers and addresses and  *)
(* any bounds.                                                             *)
(*                                                                         *)
(* CookieInv says where cookies come from: a reply carries the cookie of   *)
(* the address it is sent to, and every cookie that the initiator holds or *)
(* has put into a message was in a reply.  LimiterInv says who may hold mu *)
(* and which workers refer to an entry: that an entry is always found for  *)
(* Insert rests on counting the entries in use.                            *)
(*                                                                         *)
(* BurstInv adds, for each entry, what it let pass in this burst and what  *)
(* it may still let pass: filling it does not raise the sum above the      *)
(* burst and the message it was made for.                                  *)
(***************************************************************************)
EXTENDS LoadProtection, FiniteSetTheorems, TLAPS

Pc == {"idle", "createReply", "refresh", "derive", "lookup", "new", "insert", "take", "reset",
       "panicked"}
Local == [pc : Pc, msg : Message \cup {None}, entry : Entry \cup {None},
          lastTime : (0 .. MaxTime) \cup {None}]
Checked == {"lookup", "new", "insert", "take", "reset"}

Checker == [key : 1 .. MaxKeys, secret : Secret, drawn : Secret, secretSet : Never .. MaxTime]
Generator == [key : 1 .. MaxKeys, cookie : Cookie \cup {None}, cookieSet : Never .. MaxTime,
              lastMAC1 : (1 .. MaxMessages) \cup {None}, sent : 0 .. MaxMessages,
              answers : 0 .. MaxMessages, addr : Addr]

CookieTypes ==
    /\ now \in 0 .. MaxTime
    /\ checker \in Checker
    /\ gen \in Generator
    /\ messages \subseteq Message /\ replies \subseteq Reply
    /\ worker \in [Worker -> Local]
    /\ \A w \in Worker : worker[w].pc # "idle" => worker[w].msg \in messages

CookieInv ==
    /\ CookieTypes
    /\ \A r \in replies : r.cookie[2] = r.to
    /\ gen.cookie # None => \E r \in replies : r.cookie = gen.cookie
    /\ \A m \in messages : m.mac2 # None => \E r \in replies : r.cookie = m.mac2
    /\ CookieFromItsAddress

AnswerInv ==
    IF gen.lastMAC1 = None THEN gen.answers = 0
                           ELSE gen.answers <= gen.lastMAC1 /\ gen.lastMAC1 <= gen.sent

\* A worker that has a reset to send holds mu.
Waiting == {"reset", "panicked"}

LimiterTypes ==
    /\ entry \in [Entry -> [lastTime : 0 .. MaxTime, tokens : 0 .. Burst, served : Nat]]
    /\ table \in [Addr -> Entry \cup {None}]
    /\ mu \in Worker \cup {None} /\ ticker \in (0 .. MaxTime) \cup {None}
    /\ gc \in {"select", "cleanup", "stop", "ended"}
    /\ \A w \in Worker : worker[w].entry # None <=> worker[w].pc = "take"
    /\ \A w \in Worker : worker[w].pc = "insert" => worker[w].lastTime \in 0 .. MaxTime

LimiterInv ==
    /\ LimiterTypes
    /\ \A w \in Worker : mu = w <=> worker[w].pc \in Waiting
    /\ TickerWatchesTable

Inv == CookieInv /\ AnswerInv /\ LimiterInv

-----------------------------------------------------------------------------
(* Cookies *)

\* What a worker goes on doing with its message.
Continues(old, new) ==
    \/ new.pc = "idle"
    \/ /\ old.pc # "idle" /\ new.msg = old.msg
       /\ new.pc \in Checked => old.pc \in Checked

LEMMA Constants ==
    /\ CookieRefreshTime \in Nat /\ CookieRefreshTime > 0 /\ Burst \in Nat /\ Burst > 0
    /\ MaxMessages \in Nat /\ MaxMessages > 0 /\ MaxSecrets \in Nat /\ MaxKeys \in Nat /\ MaxKeys > 0
    /\ MaxTime \in Nat /\ Never \in Int /\ Never < 0
BY LoadAssumption DEF Never

LEMMA IdleLocal == Idle \in Local
BY DEF Idle, Local, Pc

\* Replies are only added, and workers only go on with what they have.
LEMMA CookiesKept ==
    ASSUME CookieInv, UNCHANGED gen, messages' = messages,
           checker' \in Checker,
           now' \in 0 .. MaxTime, replies \subseteq replies', replies' \subseteq Reply,
           \A r \in replies' : r.cookie[2] = r.to,
           worker' \in [Worker -> Local],
           \A v \in Worker : Continues(worker[v], worker'[v])
    PROVE  CookieInv'
<1>1. CookieTypes'
  BY DEF CookieInv, CookieTypes, Continues
<1>2. CookieFromItsAddress'
  <2> SUFFICES ASSUME NEW v \in Worker, worker'[v].pc \in Checked
               PROVE  \E r \in replies' : r.cookie = worker'[v].msg.mac2 /\ r.to = worker'[v].msg.src
    BY DEF CookieFromItsAddress, Checked
  <2>1. worker[v].pc \in Checked /\ worker'[v].msg = worker[v].msg
    BY DEF Continues, Checked
  <2> QED BY <2>1 DEF CookieInv, CookieFromItsAddress, Checked
<1>3. gen'.cookie # None => \E r \in replies' : r.cookie = gen'.cookie
  BY DEF CookieInv
<1>4. \A m \in messages' : m.mac2 # None => \E r \in replies' : r.cookie = m.mac2
  BY DEF CookieInv
<1> QED BY <1>1, <1>2, <1>3, <1>4 DEF CookieInv

\* A step of the limiter, or one that leaves the cookies alone.
LEMMA CookiesUntouched ==
    ASSUME CookieInv, UNCHANGED cookies, now' \in 0 .. MaxTime,
           worker' \in [Worker -> Local],
           \A v \in Worker : Continues(worker[v], worker'[v])
    PROVE  CookieInv'
BY CookiesKept DEF cookies, CookieInv, CookieTypes

LEMMA SameWorkers ==
    ASSUME CookieInv, UNCHANGED worker
    PROVE  worker' \in [Worker -> Local] /\ \A v \in Worker : Continues(worker[v], worker'[v])
BY DEF CookieInv, CookieTypes, Continues

LEMMA SkipContinues ==
    ASSUME CookieInv, NEW w \in Worker, Skip(w)
    PROVE  worker' \in [Worker -> Local] /\ \A v \in Worker : Continues(worker[v], worker'[v])
BY IdleLocal DEF CookieInv, CookieTypes, Continues, Skip, Idle

LEMMA GotoContinues ==
    ASSUME CookieInv, NEW w \in Worker, NEW pc \in Pc, Goto(w, pc), worker[w].pc # "idle",
           pc \in Checked => worker[w].pc \in Checked
    PROVE  worker' \in [Worker -> Local] /\ \A v \in Worker : Continues(worker[v], worker'[v])
<1>1. worker \in [Worker -> Local]
  BY DEF CookieInv, CookieTypes
<1>2. worker' = [worker EXCEPT ![w] = [worker[w] EXCEPT !.pc = pc]]
  BY <1>1 DEF Goto
<1>3. [worker[w] EXCEPT !.pc = pc] \in Local /\ Continues(worker[w], [worker[w] EXCEPT !.pc = pc])
  BY <1>1 DEF Local, Continues
<1> QED BY <1>1, <1>2, <1>3 DEF Continues

LEMMA AddMacsCookies ==
    ASSUME CookieInv, AddMacs
    PROVE  CookieInv'
<1> DEFINE m == [mac1 |-> gen.sent + 1, key |-> gen.key, src |-> gen.addr,
                 mac2 |-> IF now - gen.cookieSet > CookieRefreshTime THEN None ELSE gen.cookie]
<1>1. m \in Message /\ messages' = messages \cup {m} /\ m.mac2 \in {None, gen.cookie}
  BY Constants DEF CookieInv, CookieTypes, AddMacs, Message, Generator
<1> HIDE DEF m
<1>2. gen' \in Generator /\ gen'.cookie = gen.cookie
  <2> DEFINE n == gen.sent + 1
  <2>1. n \in 1 .. MaxMessages /\ n \in 0 .. MaxMessages
    BY Constants DEF CookieInv, CookieTypes, AddMacs, Generator
  <2>2. gen' = [gen EXCEPT !.sent = n, !.lastMAC1 = n]
    BY DEF AddMacs
  <2> HIDE DEF n
  <2> QED BY <2>1, <2>2 DEF CookieInv, CookieTypes, Generator
<1>3. UNCHANGED <<now, checker, replies, worker>>
  BY DEF AddMacs
<1>4. CookieTypes'
  BY <1>1, <1>2, <1>3 DEF CookieInv, CookieTypes
<1>5. CookieFromItsAddress'
  BY <1>3 DEF CookieInv, CookieFromItsAddress
<1>6. \A x \in messages' : x.mac2 # None => \E r \in replies' : r.cookie = x.mac2
  BY <1>1, <1>3 DEF CookieInv
<1> QED BY <1>2, <1>3, <1>4, <1>5, <1>6 DEF CookieInv

\* Roam, InitGenerator and ConsumeReply change the generator only.
LEMMA GeneratorCookies ==
    ASSUME CookieInv, UNCHANGED <<now, checker, messages, replies, worker>>,
           gen' \in Generator,
           gen'.cookie # None => \E r \in replies : r.cookie = gen'.cookie
    PROVE  CookieInv'
<1>1. CookieTypes' /\ CookieFromItsAddress'
  BY DEF CookieInv, CookieTypes, CookieFromItsAddress
<1> QED BY <1>1 DEF CookieInv

\* A message that passes CheckMAC2 carries the cookie of a reply to its source.
LEMMA CheckedMessage ==
    ASSUME CookieInv, NEW m \in messages, CheckMAC2(m)
    PROVE  \E r \in replies : r.cookie = m.mac2 /\ r.to = m.src
<1>1. m.mac2 = <<checker.secret, m.src>> /\ m.src \in Addr
  BY DEF CookieInv, CookieTypes, CheckMAC2, CookieOf, Message
<1>2. m.mac2 \in Cookie
  BY <1>1 DEF Cookie, CookieInv, CookieTypes, Checker
<1>3. PICK r \in replies : r.cookie = m.mac2
  BY <1>2, NoneAssumption DEF CookieInv
<1>4. r.to = m.mac2[2]
  BY <1>3 DEF CookieInv
<1> QED BY <1>1, <1>3, <1>4

LEMMA HandleCookies ==
    ASSUME CookieInv, NEW w \in Worker, NEW m \in messages, Handle(w, m)
    PROVE  CookieInv'
<1> DEFINE l == [Idle EXCEPT !.pc = IF CheckMAC2(m) THEN "lookup" ELSE "createReply", !.msg = m]
<1>1. /\ l \in Local /\ l.msg = m /\ l.pc \in {"lookup", "createReply"}
      /\ l.pc = "lookup" => CheckMAC2(m)
  BY DEF Idle, Local, Pc, CookieInv, CookieTypes
<1>2. worker \in [Worker -> Local] /\ worker' = [worker EXCEPT ![w] = l]
  BY DEF CookieInv, CookieTypes, Handle
<1> HIDE DEF l
<1>3. UNCHANGED <<now, checker, gen, messages, replies>>
  BY DEF Handle, cookies
<1>4. CookieTypes'
  BY <1>1, <1>2, <1>3 DEF CookieInv, CookieTypes
<1>5. CookieFromItsAddress'
  <2> SUFFICES ASSUME NEW v \in Worker, worker'[v].pc \in Checked
               PROVE  \E r \in replies : r.cookie = worker'[v].msg.mac2 /\ r.to = worker'[v].msg.src
    BY <1>3 DEF CookieFromItsAddress, Checked
  <2>1. CASE v = w
    BY <1>1, <1>2, <2>1, CheckedMessage DEF Checked
  <2>2. CASE v # w
    BY <1>2, <2>2 DEF CookieInv, CookieFromItsAddress, Checked
  <2> QED BY <2>1, <2>2
<1> QED BY <1>3, <1>4, <1>5 DEF CookieInv

LEMMA CreateReplyCookies ==
    ASSUME CookieInv, NEW w \in Worker, CreateReply(w)
    PROVE  CookieInv'
<1> DEFINE m == worker[w].msg
           r == [mac1 |-> m.mac1, key |-> checker.key, to |-> m.src, cookie |-> CookieOf(m.src)]
<1>1. m \in messages /\ m \in Message
  BY DEF CreateReply, At, CookieInv, CookieTypes
<1>2. r \in Reply /\ r.cookie[2] = r.to
  BY <1>1 DEF Reply, Message, CookieOf, Cookie, CookieInv, CookieTypes, Checker
<1>3. replies' = replies \cup {r}
  BY DEF CreateReply
<1> HIDE DEF r, m
<1>4. /\ replies \subseteq replies' /\ replies' \subseteq Reply
      /\ \A x \in replies' : x.cookie[2] = x.to
  BY <1>2, <1>3 DEF CookieInv, CookieTypes
<1>5. Skip(w) /\ UNCHANGED <<now, checker, gen, messages>>
  BY DEF CreateReply
<1> QED BY <1>4, <1>5, SkipContinues, CookiesKept DEF CookieInv, CookieTypes

LEMMA RefreshCookies ==
    ASSUME CookieInv, NEW w \in Worker, Refresh(w)
    PROVE  CookieInv'
<1>1. checker' \in Checker
  <2> DEFINE n == checker.drawn + 1
  <2>1. n \in Secret /\ now \in Never .. MaxTime
    BY Constants DEF Refresh, CookieInv, CookieTypes, Secret, Checker
  <2>2. checker' = [checker EXCEPT !.secret = n, !.drawn = n, !.secretSet = now]
    BY DEF Refresh
  <2> HIDE DEF n
  <2> QED BY <2>1, <2>2 DEF CookieInv, CookieTypes, Checker
<1>2. Goto(w, "derive") /\ worker[w].pc # "idle" /\ UNCHANGED <<now, gen, messages, replies>>
  BY DEF Refresh, At
<1>3. worker' \in [Worker -> Local] /\ \A v \in Worker : Continues(worker[v], worker'[v])
  BY <1>2, GotoContinues DEF Pc, Checked
<1> QED BY <1>1, <1>2, <1>3, CookiesKept DEF CookieInv, CookieTypes

-----------------------------------------------------------------------------
(* The rate limiter *)

Bucket == [lastTime : 0 .. MaxTime, tokens : 0 .. Burst, served : Nat]

LEMMA KeptType ==
    ASSUME NEW es \in [Entry -> Bucket], NEW t, NEW ws
    PROVE  Kept(es, t, ws) \in [Entry -> Bucket]
<1>1. Unused \in Bucket
  BY Constants DEF Unused, Bucket
<1> QED BY <1>1 DEF Kept

\* The values of a function are no more than its arguments.
LEMMA RangeCardinality ==
    ASSUME NEW S, IsFiniteSet(S), NEW f, f = [x \in S |-> f[x]]
    PROVE  /\ IsFiniteSet({f[x] : x \in S})
           /\ Cardinality({f[x] : x \in S}) <= Cardinality(S)
<1>1. f \in Surjection(S, {f[x] : x \in S})
  BY DEF Surjection
<1> QED BY <1>1, FS_Surjection

\* There is an entry for the worker that inserts one, to which nobody refers: the
\* addresses and the other workers refer to fewer than there are.
LEMMA NewEntryExists ==
    ASSUME CookieTypes, LimiterTypes, NEW w \in Worker, worker[w].entry = None
    PROVE  NewEntry \in Entry /\ \A a \in Addr, v \in Worker : table[a] # NewEntry /\ worker[v].entry # NewEntry
<1> DEFINE others == Worker \ {w}
           f == [v \in others |-> worker[v].entry]
           inTable == {table[a] : a \in Addr}
           inUse == {f[v] : v \in others}
<1>1. IsFiniteSet(inTable) /\ Cardinality(inTable) <= Cardinality(Addr)
  BY LoadAssumption, RangeCardinality DEF LimiterTypes
<1>2. IsFiniteSet(others) /\ Cardinality(others) = Cardinality(Worker) - 1
  BY LoadAssumption, FS_RemoveElement
<1>3. IsFiniteSet(inUse) /\ Cardinality(inUse) <= Cardinality(others)
  <2>1. f = [v \in others |-> f[v]]
    OBVIOUS
  <2> HIDE DEF f, others
  <2> QED BY <1>2, <2>1, RangeCardinality
<1>4. \A v \in others : f[v] = worker[v].entry
  OBVIOUS
<1> HIDE DEF inTable, inUse, f
<1>5. /\ Cardinality(Addr) \in Nat /\ Cardinality(Worker) \in Nat /\ Cardinality(others) \in Nat
      /\ Cardinality(inTable) \in Nat /\ Cardinality(inUse) \in Nat
      /\ Cardinality(inTable \cap inUse) \in Nat
  BY <1>1, <1>2, <1>3, LoadAssumption, FS_CardinalityType, FS_Intersection
<1>6. IsFiniteSet(inTable \cup inUse)
      /\ Cardinality(inTable \cup inUse) < Cardinality(Addr) + Cardinality(Worker)
  <2>1. /\ IsFiniteSet(inTable \cup inUse)
        /\ Cardinality(inTable \cup inUse)
             = Cardinality(inTable) + Cardinality(inUse) - Cardinality(inTable \cap inUse)
    BY <1>1, <1>3, FS_Union
  <2> QED BY <1>1, <1>2, <1>3, <1>5, <2>1
<1>7. Cardinality(Entry) = Cardinality(Addr) + Cardinality(Worker)
  BY <1>5, FS_Interval DEF Entry
<1>8. ~(Entry \subseteq inTable \cup inUse)
  <2> SUFFICES ASSUME Entry \subseteq inTable \cup inUse PROVE FALSE
    OBVIOUS
  <2>1. Cardinality(Entry) <= Cardinality(inTable \cup inUse)
    BY <1>6, FS_Subset
  <2> QED BY <1>5, <1>6, <1>7, <2>1, FS_CardinalityType
<1>9. PICK e \in Entry : e \notin inTable \cup inUse
  BY <1>8
<1>10. e # None
  BY <1>5, NoneAssumption DEF Entry
<1>11. \A a \in Addr, v \in Worker : table[a] # e /\ worker[v].entry # e
  BY <1>4, <1>9, <1>10 DEF inTable, inUse
<1> QED BY <1>11 DEF NewEntry

\* Steps that leave the limiter alone.
LEMMA LimiterUntouched ==
    ASSUME LimiterInv, UNCHANGED limiter,
           \A v \in Worker : /\ worker'[v].entry # None <=> worker'[v].pc = "take"
                             /\ worker'[v].pc \in Waiting <=> worker[v].pc \in Waiting
                             /\ worker'[v].pc = "insert" => worker'[v].lastTime \in 0 .. MaxTime
    PROVE  LimiterInv'
<1>1. LimiterTypes'
  BY DEF LimiterInv, LimiterTypes, limiter
<1>2. \A v \in Worker : mu' = v <=> worker'[v].pc \in Waiting
  BY DEF LimiterInv, limiter
<1>3. TickerWatchesTable'
  BY DEF LimiterInv, TickerWatchesTable, Entries, limiter
<1> QED BY <1>1, <1>2, <1>3 DEF LimiterInv

\* Steps of the routine that collects entries.
LEMMA LimiterByRoutine ==
    ASSUME LimiterInv, UNCHANGED <<worker, mu>>, entry' \in [Entry -> Bucket],
           table' \in [Addr -> Entry \cup {None}], ticker' \in (0 .. MaxTime) \cup {None},
           gc' \in {"select", "cleanup", "stop", "ended"}, TickerWatchesTable'
    PROVE  LimiterInv'
BY DEF LimiterInv, LimiterTypes, Bucket

\* A worker that enters the limiter or leaves it without a reset to send.
LEMMA SkipLimiter ==
    ASSUME CookieTypes, LimiterInv, NEW w \in Worker, Skip(w), worker[w].pc \notin Waiting,
           UNCHANGED limiter
    PROVE  LimiterInv'
BY LimiterUntouched DEF Skip, Idle, Waiting, CookieTypes, LimiterInv, LimiterTypes

LEMMA GotoLimiter ==
    ASSUME CookieTypes, LimiterInv, NEW w \in Worker, NEW pc, Goto(w, pc),
           pc # "take", pc # "insert", worker[w].pc # "take", pc \in Waiting <=> worker[w].pc \in Waiting,
           UNCHANGED limiter
    PROVE  LimiterInv'
<1>1. worker' = [worker EXCEPT ![w] = [worker[w] EXCEPT !.pc = pc]]
  BY DEF Goto, CookieTypes
<1>2. [worker[w] EXCEPT !.pc = pc].pc = pc /\ [worker[w] EXCEPT !.pc = pc].entry = worker[w].entry
  BY DEF CookieTypes, Local
<1> QED BY <1>1, <1>2, LimiterUntouched DEF CookieTypes, LimiterInv, LimiterTypes

LEMMA HandleLimiter ==
    ASSUME CookieTypes, LimiterInv, NEW w \in Worker, NEW m, Handle(w, m)
    PROVE  LimiterInv'
BY LimiterUntouched DEF Handle, At, Idle, Waiting, CookieTypes, LimiterInv, LimiterTypes

LEMMA LookupStep ==
    ASSUME CookieInv, LimiterInv, NEW w \in Worker, Lookup(w)
    PROVE  CookieInv' /\ LimiterInv'
<1> DEFINE e == table[worker[w].msg.src]
           l == [worker[w] EXCEPT !.entry = e, !.pc = IF e = None THEN "new" ELSE "take"]
<1>1. worker[w].msg \in Message /\ worker[w].pc = "lookup" /\ worker \in [Worker -> Local]
  BY DEF Lookup, At, CookieInv, CookieTypes
<1>2. e \in Entry \cup {None}
  BY <1>1 DEF Message, LimiterInv, LimiterTypes
<1>3. worker' = [worker EXCEPT ![w] = l]
  BY <1>1 DEF Lookup
<1> HIDE DEF e
<1>4. /\ l \in Local /\ l.msg = worker[w].msg /\ l.pc \in {"new", "take"}
      /\ l.entry # None <=> l.pc = "take"
  BY <1>1, <1>2 DEF Local, Pc
<1> HIDE DEF l
<1>5. UNCHANGED <<now, cookies, limiter>>
  BY DEF Lookup
<1>6. worker' \in [Worker -> Local] /\ \A v \in Worker : Continues(worker[v], worker'[v])
  BY <1>1, <1>3, <1>4 DEF Continues, Checked
<1>7. CookieInv'
  BY <1>5, <1>6, CookiesUntouched DEF CookieInv, CookieTypes
<1>8. LimiterInv'
  BY <1>1, <1>3, <1>4, <1>5, LimiterUntouched DEF LimiterInv, LimiterTypes, Waiting
<1> QED BY <1>7, <1>8

LEMMA ReadClockStep ==
    ASSUME CookieInv, LimiterInv, NEW w \in Worker, ReadClock(w)
    PROVE  CookieInv' /\ LimiterInv'
<1> DEFINE l == [worker[w] EXCEPT !.lastTime = now, !.pc = "insert"]
<1>1. worker[w].pc = "new" /\ worker \in [Worker -> Local] /\ now \in 0 .. MaxTime
  BY DEF ReadClock, At, CookieInv, CookieTypes
<1>2. worker' = [worker EXCEPT ![w] = l]
  BY <1>1 DEF ReadClock
<1>3. /\ l \in Local /\ l.msg = worker[w].msg /\ l.pc = "insert" /\ l.lastTime \in 0 .. MaxTime
      /\ l.entry = worker[w].entry
  BY <1>1 DEF Local, Pc
<1> HIDE DEF l
<1>4. UNCHANGED <<now, cookies, limiter>>
  BY DEF ReadClock
<1>5. worker' \in [Worker -> Local] /\ \A v \in Worker : Continues(worker[v], worker'[v])
  BY <1>1, <1>2, <1>3 DEF Continues, Checked
<1>6. CookieInv'
  BY <1>1, <1>4, <1>5, CookiesUntouched
<1>7. LimiterInv'
  BY <1>1, <1>2, <1>3, <1>4, LimiterUntouched DEF LimiterInv, LimiterTypes, Waiting
<1> QED BY <1>6, <1>7

LEMMA InsertStep ==
    ASSUME CookieInv, LimiterInv, NEW w \in Worker, Insert(w)
    PROVE  CookieInv' /\ LimiterInv'
<1> DEFINE a == worker[w].msg.src
           e == NewEntry
           first == Cardinality(Entries(table')) = 1
<1>1. /\ worker \in [Worker -> Local] /\ worker[w].pc = "insert" /\ mu = None
      /\ worker[w].entry = None /\ worker[w].msg \in Message /\ worker[w].lastTime \in 0 .. MaxTime
  BY DEF Insert, At, CookieInv, CookieTypes, LimiterInv, LimiterTypes
<1>2. a \in Addr
  BY <1>1 DEF Message
<1>3. e \in Entry /\ e # None
  <2>1. e \in Entry
    BY <1>1, NewEntryExists DEF CookieInv, LimiterInv
  <2>2. \A x \in Entry : x # None
    BY NoneAssumption, LoadAssumption, FS_CardinalityType DEF Entry
  <2> QED BY <2>1, <2>2
<1>4. table' = [table EXCEPT ![a] = e] /\ UNCHANGED <<now, cookies, stopReset, gc, ticker>>
  BY DEF Insert
<1>5. \/ first /\ mu' = w /\ Goto(w, "reset")
      \/ ~first /\ Skip(w) /\ mu' = None
  BY <1>1 DEF Insert
<1>6. entry' \in [Entry -> Bucket]
  <2> DEFINE b == [lastTime |-> worker[w].lastTime, tokens |-> Burst - 1, served |-> 1]
  <2>1. b \in Bucket
    BY <1>1, Constants DEF Bucket
  <2>2. entry' = Kept([entry EXCEPT ![e] = b], table', worker')
    BY DEF Insert
  <2> HIDE DEF b
  <2>3. [entry EXCEPT ![e] = b] \in [Entry -> Bucket]
    BY <1>3, <2>1 DEF LimiterInv, LimiterTypes, Bucket
  <2> QED BY <2>2, <2>3, KeptType
<1> HIDE DEF a, e, first
<1>7. worker' \in [Worker -> Local] /\ \A v \in Worker : Continues(worker[v], worker'[v])
  BY <1>1, <1>5, GotoContinues, SkipContinues DEF Pc, Checked
<1>8. CookieInv'
  BY <1>4, <1>7, CookiesUntouched DEF CookieInv, CookieTypes
<1>9. /\ \A v \in Worker : worker'[v].entry # None <=> worker'[v].pc = "take"
      /\ \A v \in Worker : mu' = v <=> worker'[v].pc \in Waiting
  <2>1. \A v \in Worker : worker[v].pc \notin Waiting /\ v # None
    BY <1>1, NoneAssumption DEF LimiterInv
  <2>2. CASE mu' = w /\ Goto(w, "reset")
    <3>1. worker' = [worker EXCEPT ![w] = [worker[w] EXCEPT !.pc = "reset"]]
      BY <1>1, <2>2 DEF Goto
    <3>2. [worker[w] EXCEPT !.pc = "reset"].pc = "reset" /\ [worker[w] EXCEPT !.pc = "reset"].entry = None
      BY <1>1 DEF Local
    <3> QED BY <1>1, <2>1, <2>2, <3>1, <3>2 DEF LimiterInv, LimiterTypes, Waiting
  <2>3. CASE Skip(w) /\ mu' = None
    BY <1>1, <2>1, <2>3 DEF Skip, Idle, LimiterInv, LimiterTypes, Waiting
  <2> QED BY <1>5, <2>2, <2>3
<1>12. \A v \in Worker : worker'[v].pc = "insert" => worker'[v].lastTime \in 0 .. MaxTime
  <2>1. CASE Goto(w, "reset")
    <3>1. worker' = [worker EXCEPT ![w] = [worker[w] EXCEPT !.pc = "reset"]]
      BY <1>1, <2>1 DEF Goto
    <3>2. [worker[w] EXCEPT !.pc = "reset"].pc = "reset"
      BY <1>1 DEF Local
    <3> QED BY <1>1, <3>1, <3>2 DEF LimiterInv, LimiterTypes
  <2>2. CASE Skip(w)
    BY <1>1, <2>2 DEF Skip, Idle, LimiterInv, LimiterTypes
  <2> QED BY <1>5, <2>1, <2>2
<1>10. LimiterTypes'
  <2>1. table' \in [Addr -> Entry \cup {None}]
    BY <1>3, <1>4 DEF LimiterInv, LimiterTypes
  <2>2. mu' \in Worker \cup {None}
    BY <1>5
  <2> QED BY <1>4, <1>6, <1>9, <1>12, <2>1, <2>2 DEF LimiterInv, LimiterTypes, Bucket
<1>11. TickerWatchesTable'
  <2>1. CASE Entries(table) # {}
    <3>1. stopReset = "open" => ticker # None /\ gc # "stop"
      BY <1>1, <2>1 DEF LimiterInv, TickerWatchesTable
    <3> QED BY <1>4, <3>1 DEF TickerWatchesTable
  <2>2. CASE Entries(table) = {}
    <3>1. Entries(table') = {e}
      BY <1>2, <1>3, <1>4, <2>2 DEF Entries, LimiterInv, LimiterTypes
    <3>2. first
      BY <3>1, FS_Singleton DEF first
    <3>3. mu' # None
      BY <1>5, <3>2, NoneAssumption
    <3> QED BY <3>3 DEF TickerWatchesTable
  <2> QED BY <2>1, <2>2
<1> QED BY <1>8, <1>9, <1>10, <1>11 DEF LimiterInv

LEMMA ResetStep ==
    ASSUME CookieInv, LimiterInv, NEW w \in Worker, Reset(w)
    PROVE  CookieInv' /\ LimiterInv'
<1>1. /\ worker[w].pc = "reset" /\ mu = w /\ gc = "select" /\ ticker' = now /\ mu' = None
      /\ Skip(w) /\ UNCHANGED <<now, cookies, entry, table, stopReset, gc>>
  BY DEF Reset, At, LimiterInv, Waiting
<1>2. worker \in [Worker -> Local] /\ now \in 0 .. MaxTime /\ now # None
  BY NoneAssumption DEF CookieInv, CookieTypes
<1>3. CookieInv'
  BY <1>1, <1>2, SkipContinues, CookiesUntouched
<1>4. worker' = [worker EXCEPT ![w] = Idle]
  BY <1>1 DEF Skip
<1>5. \A v \in Worker : mu' = v <=> worker'[v].pc \in Waiting
  BY <1>1, <1>2, <1>4, NoneAssumption DEF Idle, LimiterInv, Waiting
<1>6. LimiterTypes'
  BY <1>1, <1>2, <1>4 DEF Idle, LimiterInv, LimiterTypes
<1>7. TickerWatchesTable'
  BY <1>1, <1>2 DEF TickerWatchesTable
<1> QED BY <1>3, <1>5, <1>6, <1>7 DEF LimiterInv

\* A packet is only taken from an entry with at least one token, and filling
\* gives no more than the burst.
LEMMA TakeTokenStep ==
    ASSUME CookieInv, LimiterInv, NEW w \in Worker, NEW passed \in BOOLEAN, TakeToken(w, passed)
    PROVE  CookieInv' /\ LimiterInv'
<1> DEFINE e == worker[w].entry
           left == IF Enough(Filled(e), passed) THEN Spend(Filled(e)) ELSE Filled(e)
           more == IF Enough(Filled(e), passed) THEN entry[e].served + 1 ELSE entry[e].served
           b == [lastTime |-> now, tokens |-> left, served |-> more]
<1>1. /\ worker \in [Worker -> Local] /\ worker[w].pc = "take" /\ e \in Entry
      /\ now \in 0 .. MaxTime
  BY DEF TakeToken, At, CookieInv, CookieTypes, Local, LimiterInv, LimiterTypes
<1>2. Skip(w) /\ UNCHANGED <<now, cookies, table, mu, stopReset, gc, ticker>>
  BY DEF TakeToken
<1>3. CookieInv'
  BY <1>1, <1>2, SkipContinues, CookiesUntouched
<1>4. entry' \in [Entry -> Bucket]
  <2>1. Filled(e) \in 0 .. Burst
    BY <1>1, Constants DEF Filled, LimiterInv, LimiterTypes
  <2>2. left \in 0 .. Burst
    BY <2>1, Constants DEF Enough, Spend
  <2>6. more \in Nat
    BY <1>1 DEF LimiterInv, LimiterTypes
  <2>3. b \in Bucket
    BY <1>1, <2>2, <2>6 DEF Bucket
  <2>4. entry' = Kept([entry EXCEPT ![e] = b], table, worker')
    BY <1>1 DEF TakeToken, LimiterInv, LimiterTypes
  <2> HIDE DEF b
  <2>5. [entry EXCEPT ![e] = b] \in [Entry -> Bucket]
    BY <1>1, <2>3 DEF LimiterInv, LimiterTypes, Bucket
  <2> QED BY <2>4, <2>5, KeptType
<1>5. worker' = [worker EXCEPT ![w] = Idle]
  BY <1>2 DEF Skip
<1>6. \A v \in Worker : mu' = v <=> worker'[v].pc \in Waiting
  BY <1>1, <1>2, <1>5 DEF Idle, LimiterInv, Waiting
<1>7. LimiterTypes'
  BY <1>1, <1>2, <1>4, <1>5 DEF Idle, LimiterInv, LimiterTypes, Bucket
<1>8. TickerWatchesTable'
  BY <1>2 DEF TickerWatchesTable, Entries, LimiterInv
<1> QED BY <1>3, <1>6, <1>7, <1>8 DEF LimiterInv

LEMMA GcTickStep ==
    ASSUME CookieInv, LimiterInv, GcTick
    PROVE  LimiterInv'
<1>1. /\ gc = "select" /\ gc' = "cleanup" /\ ticker # None /\ ticker' = now
      /\ UNCHANGED <<worker, entry, table, mu, stopReset>>
  BY DEF GcTick
<1>2. now \in 0 .. MaxTime /\ now # None
  BY NoneAssumption DEF CookieInv, CookieTypes
<1>3. TickerWatchesTable'
  BY <1>1, <1>2 DEF TickerWatchesTable
<1> QED BY <1>1, <1>2, <1>3, LimiterByRoutine DEF LimiterInv, LimiterTypes, Bucket

LEMMA CleanupStep ==
    ASSUME CookieInv, LimiterInv, Cleanup
    PROVE  LimiterInv'
<1>1. /\ gc = "cleanup" /\ mu = None /\ UNCHANGED <<worker, mu, stopReset, ticker>>
      /\ gc' = IF Entries(table') = {} THEN "stop" ELSE "select"
      /\ entry' = Kept(entry, table', worker)
  BY DEF Cleanup
<1>2. /\ table' \in [Addr -> Entry \cup {None}]
      /\ \A a \in Addr : table'[a] \in {None, table[a]}
  BY DEF Cleanup, LimiterInv, LimiterTypes
<1>3. Entries(table') \subseteq Entries(table)
  BY <1>2 DEF Entries
<1>4. entry' \in [Entry -> Bucket]
  BY <1>1, KeptType DEF LimiterInv, LimiterTypes, Bucket
<1>5. TickerWatchesTable'
  BY <1>1, <1>3 DEF LimiterInv, TickerWatchesTable
<1> QED BY <1>1, <1>2, <1>4, <1>5, LimiterByRoutine DEF LimiterInv, LimiterTypes

LEMMA StopTickerStep ==
    ASSUME LimiterInv, StopTicker
    PROVE  LimiterInv'
<1>1. /\ gc = "stop" /\ gc' = "select" /\ ticker' = None
      /\ UNCHANGED <<worker, entry, table, mu, stopReset>>
  BY DEF StopTicker
<1>2. TickerWatchesTable'
  BY <1>1 DEF LimiterInv, TickerWatchesTable, Entries
<1> QED BY <1>1, <1>2, LimiterByRoutine DEF LimiterInv, LimiterTypes, Bucket

LEMMA CloseStep ==
    ASSUME LimiterInv, Close
    PROVE  LimiterInv'
<1>1. stopReset' = "closed" /\ UNCHANGED <<worker, entry, table, mu, gc, ticker>>
  BY DEF Close
<1>2. TickerWatchesTable'
  BY <1>1 DEF TickerWatchesTable
<1> QED BY <1>1, <1>2, LimiterByRoutine DEF LimiterInv, LimiterTypes, Bucket

LEMMA GcEndStep ==
    ASSUME LimiterInv, GcEnd
    PROVE  LimiterInv'
<1>1. /\ gc' = "ended" /\ ticker' = None /\ stopReset = "closed"
      /\ UNCHANGED <<worker, entry, table, mu, stopReset>>
  BY DEF GcEnd
<1>2. TickerWatchesTable'
  BY <1>1 DEF TickerWatchesTable
<1> QED BY <1>1, <1>2, LimiterByRoutine DEF LimiterInv, LimiterTypes, Bucket

-----------------------------------------------------------------------------
(* Every step *)

\* Steps that change neither the workers nor the limiter.
LEMMA OnlyCookies ==
    ASSUME LimiterInv, UNCHANGED <<worker, limiter>>
    PROVE  LimiterInv'
BY LimiterUntouched DEF LimiterInv, LimiterTypes

LEMMA ConsumeReplyStep ==
    ASSUME CookieInv, AnswerInv, NEW r \in replies, ConsumeReply(r)
    PROVE  CookieInv' /\ AnswerInv' /\ (gen'.key = gen.key => gen'.answers >= gen.answers)
<1>1. r \in Reply /\ now \in Never .. MaxTime /\ gen \in Generator
  BY Constants DEF CookieInv, CookieTypes
<1>2. r.cookie \in Cookie /\ r.mac1 \in 1 .. MaxMessages /\ r.mac1 \in 0 .. MaxMessages
  BY <1>1, Constants DEF Reply
<1>3. /\ gen' = [gen EXCEPT !.cookie = r.cookie, !.cookieSet = now, !.answers = r.mac1]
      /\ gen.lastMAC1 # None /\ r.mac1 = gen.lastMAC1
      /\ UNCHANGED <<now, checker, messages, replies, worker>>
  BY DEF ConsumeReply, Opens
<1>4. gen' \in Generator /\ gen'.cookie = r.cookie
  BY <1>1, <1>2, <1>3 DEF Generator
<1>5. CookieInv'
  BY <1>3, <1>4, GeneratorCookies
<1>6. /\ gen'.answers = gen.lastMAC1 /\ gen'.lastMAC1 = gen.lastMAC1 /\ gen'.sent = gen.sent
      /\ gen.lastMAC1 \in 1 .. MaxMessages
  BY <1>1, <1>2, <1>3 DEF Generator
<1>7. AnswerInv'
  BY <1>3, <1>6, Constants DEF AnswerInv
<1>8. gen'.answers >= gen.answers
  BY <1>1, <1>3, <1>6, Constants DEF AnswerInv, Generator
<1> QED BY <1>5, <1>7, <1>8

LEMMA AddMacsAnswers ==
    ASSUME CookieInv, AnswerInv, AddMacs
    PROVE  AnswerInv' /\ gen'.answers = gen.answers
<1>1. gen \in Generator
  BY DEF CookieInv, CookieTypes
<1>2. gen'.sent = gen.sent + 1 /\ gen'.lastMAC1 = gen.sent + 1 /\ gen'.answers = gen.answers
  BY <1>1 DEF AddMacs, Generator
<1>3. gen.sent \in Nat /\ gen.answers \in Nat /\ gen.sent + 1 # None
      /\ (gen.lastMAC1 # None => gen.lastMAC1 \in Nat)
  BY <1>1, NoneAssumption DEF Generator
<1> QED BY <1>2, <1>3 DEF AnswerInv

LEMMA InitGeneratorStep ==
    ASSUME CookieInv, InitGenerator
    PROVE  CookieInv' /\ AnswerInv' /\ gen'.key # gen.key
<1>1. /\ gen \in Generator /\ checker.key \in 1 .. MaxKeys
      /\ Never \in Never .. MaxTime /\ 0 \in 0 .. MaxMessages
  BY Constants DEF CookieInv, CookieTypes, Checker
<1>2. /\ gen' = [gen EXCEPT !.key = checker.key, !.cookie = None, !.cookieSet = Never,
                            !.lastMAC1 = None, !.answers = 0]
      /\ gen.key # checker.key /\ UNCHANGED <<now, checker, messages, replies, worker>>
  BY DEF InitGenerator
<1>3. /\ gen' \in Generator /\ gen'.cookie = None /\ gen'.lastMAC1 = None /\ gen'.answers = 0
      /\ gen'.key = checker.key
  BY <1>1, <1>2 DEF Generator
<1> QED BY <1>2, <1>3, GeneratorCookies DEF AnswerInv

LEMMA RoamStep ==
    ASSUME CookieInv, AnswerInv, NEW a \in Addr, Roam(a)
    PROVE  CookieInv' /\ AnswerInv' /\ gen'.answers = gen.answers
<1>1. gen \in Generator
  BY DEF CookieInv, CookieTypes
<1>2. gen' = [gen EXCEPT !.addr = a] /\ UNCHANGED <<now, checker, messages, replies, worker>>
  BY DEF Roam
<1>3. /\ gen' \in Generator /\ gen'.cookie = gen.cookie /\ gen'.answers = gen.answers
      /\ gen'.lastMAC1 = gen.lastMAC1 /\ gen'.sent = gen.sent
  BY <1>1, <1>2 DEF Generator
<1>4. CookieInv'
  BY <1>2, <1>3, GeneratorCookies DEF CookieInv
<1> QED BY <1>3, <1>4 DEF AnswerInv

LEMMA InitCheckerCookies ==
    ASSUME CookieInv, InitChecker
    PROVE  CookieInv'
<1>1. checker' \in Checker /\ UNCHANGED <<now, gen, messages, replies, worker>>
  <2> DEFINE k == checker.key + 1
  <2>1. k \in 1 .. MaxKeys /\ Never \in Never .. MaxTime
    BY Constants DEF InitChecker, CookieInv, CookieTypes, Checker
  <2>2. checker' = [checker EXCEPT !.key = k, !.secretSet = Never]
    BY DEF InitChecker
  <2> HIDE DEF k
  <2> QED BY <2>1, <2>2 DEF InitChecker, CookieInv, CookieTypes, Checker
<1> QED BY <1>1, SameWorkers, CookiesKept DEF CookieInv, CookieTypes

LEMMA WorkerStepInv ==
    ASSUME CookieInv, LimiterInv, NEW w \in Worker,
           WorkerStep(w) \/ \E m \in messages : Handle(w, m)
    PROVE  CookieInv' /\ LimiterInv' /\ UNCHANGED gen
<1>1. CASE \E m \in messages : Handle(w, m)
  <2>1. PICK m \in messages : Handle(w, m)
    BY <1>1
  <2>2. CookieInv'
    BY <2>1, HandleCookies
  <2>3. LimiterInv'
    BY <2>1, HandleLimiter DEF CookieInv
  <2> QED BY <2>1, <2>2, <2>3 DEF Handle, cookies
<1>2. CASE NeedsRefresh(w)
  <2>1. /\ Goto(w, "refresh") /\ worker[w].pc = "createReply"
        /\ UNCHANGED <<now, cookies, limiter>>
    BY <1>2 DEF NeedsRefresh, At
  <2>2. worker' \in [Worker -> Local] /\ \A v \in Worker : Continues(worker[v], worker'[v])
    BY <2>1, GotoContinues DEF Pc, Checked
  <2>3. CookieInv'
    BY <2>1, <2>2, CookiesUntouched DEF CookieInv, CookieTypes
  <2> QED BY <2>1, <2>3, GotoLimiter DEF CookieInv, cookies, Waiting
<1>3. CASE Refresh(w)
  BY <1>3, RefreshCookies, GotoLimiter DEF Refresh, At, CookieInv, Waiting
<1>4. CASE CreateReply(w)
  BY <1>4, CreateReplyCookies, SkipLimiter DEF CreateReply, At, CookieInv, Waiting
<1>5. CASE Lookup(w)
  BY <1>5, LookupStep DEF Lookup, cookies
<1>6. CASE Insert(w)
  BY <1>6, InsertStep DEF Insert, cookies
<1>7. CASE Reset(w)
  BY <1>7, ResetStep DEF Reset, cookies
<1>8. ASSUME NEW passed \in BOOLEAN, TakeToken(w, passed)
      PROVE  CookieInv' /\ LimiterInv' /\ UNCHANGED gen
  BY <1>8, TakeTokenStep DEF TakeToken, cookies
<1>9. CASE ReadClock(w)
  BY <1>9, ReadClockStep DEF ReadClock, cookies
<1>10. CASE Panic(w)
  <2>1. Goto(w, "panicked") /\ worker[w].pc = "reset" /\ UNCHANGED <<now, cookies, limiter>>
    BY <1>10 DEF Panic, At
  <2>2. worker' \in [Worker -> Local] /\ \A v \in Worker : Continues(worker[v], worker'[v])
    BY <2>1, GotoContinues DEF Pc, Checked
  <2>3. CookieInv'
    BY <2>1, <2>2, CookiesUntouched DEF CookieInv, CookieTypes
  <2> QED BY <2>1, <2>3, GotoLimiter DEF CookieInv, cookies, Waiting
<1> QED BY <1>1, <1>2, <1>3, <1>4, <1>5, <1>6, <1>7, <1>8, <1>9, <1>10 DEF WorkerStep

LEMMA InvInit == Init => Inv
<1> SUFFICES ASSUME Init PROVE Inv
  OBVIOUS
<1>1. gen.addr \in Addr
  BY DEF Init
<1>2. CookieTypes
  BY <1>1, Constants, IdleLocal DEF Init, CookieTypes, Checker, Generator, Secret, Idle
<1>3. CookieInv
  BY <1>2 DEF Init, CookieInv, CookieFromItsAddress, Idle
<1>4. AnswerInv
  BY DEF Init, AnswerInv
<1>5. \A w \in Worker : worker[w] = Idle /\ w # None
  BY NoneAssumption DEF Init
<1>6. gc = "select" /\ mu = None /\ 0 # None
  BY NoneAssumption DEF Init
<1>7. LimiterInv
  <2>1. CASE table = [a \in Addr |-> None] /\ ticker = None /\ entry = [e \in Entry |-> Unused]
    <3>1. LimiterTypes
      BY <1>5, <1>6, <2>1, Constants DEF LimiterTypes, Unused, Idle
    <3>2. Entries(table) = {}
      BY <2>1 DEF Entries
    <3> QED BY <1>5, <1>6, <3>1, <3>2 DEF LimiterInv, TickerWatchesTable, Idle, Waiting
  <2>2. ASSUME NEW other \in Addr,
               table = [a \in Addr |-> IF a = other THEN 1 ELSE None], ticker = 0,
               entry = [e \in Entry |-> [Unused EXCEPT !.tokens = IF e = 1 THEN Burst - 1 ELSE 0]]
        PROVE  LimiterInv
    <3>1. 1 \in Entry
      <4>1. Cardinality(Addr) \in Nat /\ Cardinality(Worker) \in Nat /\ Cardinality(Addr) # 0
        BY LoadAssumption, FS_CardinalityType, FS_EmptySet
      <4> QED BY <4>1 DEF Entry
    <3>2. entry \in [Entry -> [lastTime : 0 .. MaxTime, tokens : 0 .. Burst, served : Nat]]
      BY <2>2, Constants DEF Unused
    <3>3. LimiterTypes
      BY <1>5, <1>6, <2>2, <3>1, <3>2, Constants DEF LimiterTypes, Idle
    <3> QED BY <1>5, <1>6, <2>2, <3>3 DEF LimiterInv, TickerWatchesTable, Idle, Waiting
  <2> QED BY <2>1, <2>2 DEF Init
<1> QED BY <1>3, <1>4, <1>7 DEF Inv

\* A step keeps the invariant and takes no older cookie.
LEMMA InvStep ==
    ASSUME Inv, [Next]_vars
    PROVE  Inv' /\ (gen'.key = gen.key => gen'.answers >= gen.answers)
<1> USE DEF Inv
<1>0. gen.answers >= gen.answers
  BY Constants DEF CookieInv, CookieTypes, Generator
<1>1. ASSUME CookieInv', LimiterInv', UNCHANGED gen
      PROVE  Inv' /\ (gen'.key = gen.key => gen'.answers >= gen.answers)
  BY <1>0, <1>1 DEF AnswerInv
<1>2. CASE AddMacs
  BY <1>0, <1>2, AddMacsCookies, AddMacsAnswers, OnlyCookies DEF AddMacs
<1>3. ASSUME NEW r \in replies, ConsumeReply(r)
      PROVE  Inv' /\ (gen'.key = gen.key => gen'.answers >= gen.answers)
  <2>1. CookieInv' /\ AnswerInv' /\ (gen'.key = gen.key => gen'.answers >= gen.answers)
    BY <1>3, ConsumeReplyStep
  <2>2. UNCHANGED <<worker, limiter>>
    BY <1>3 DEF ConsumeReply
  <2> QED BY <2>1, <2>2, OnlyCookies
<1>4. ASSUME NEW a \in Addr, Roam(a)
      PROVE  Inv' /\ (gen'.key = gen.key => gen'.answers >= gen.answers)
  BY <1>0, <1>4, RoamStep, OnlyCookies DEF Roam
<1>5. CASE InitGenerator
  BY <1>5, InitGeneratorStep, OnlyCookies DEF InitGenerator
<1>6. CASE InitChecker
  BY <1>1, <1>6, InitCheckerCookies, OnlyCookies DEF InitChecker
<1>7. ASSUME NEW w \in Worker, WorkerStep(w) \/ \E m \in messages : Handle(w, m)
      PROVE  Inv' /\ (gen'.key = gen.key => gen'.answers >= gen.answers)
  BY <1>1, <1>7, WorkerStepInv
<1>8. ASSUME UNCHANGED <<cookies, worker>>, now' \in 0 .. MaxTime, LimiterInv'
      PROVE  Inv' /\ (gen'.key = gen.key => gen'.answers >= gen.answers)
  <2>1. CookieInv'
    BY <1>8, SameWorkers, CookiesUntouched
  <2> QED BY <1>1, <1>8, <2>1 DEF cookies
<1>9. now \in 0 .. MaxTime
  BY DEF CookieInv, CookieTypes
<1>10. CASE GcTick
  BY <1>8, <1>9, <1>10, GcTickStep DEF GcTick
<1>11. CASE Cleanup
  BY <1>8, <1>9, <1>11, CleanupStep DEF Cleanup
<1>12. CASE StopTicker
  BY <1>8, <1>9, <1>12, StopTickerStep DEF StopTicker
<1>13. CASE Close
  BY <1>8, <1>9, <1>13, CloseStep DEF Close
<1>16. CASE GcEnd
  BY <1>8, <1>9, <1>16, GcEndStep DEF GcEnd
<1>14. CASE Tick
  <2>1. /\ now' \in 0 .. MaxTime /\ UNCHANGED <<cookies, worker, table, mu, stopReset, gc, ticker>>
        /\ entry' = [e \in Entry |-> [entry[e] EXCEPT !.served = 0]]
    BY <1>9, <1>14, Constants DEF Tick
  <2>3. entry' \in [Entry -> [lastTime : 0 .. MaxTime, tokens : 0 .. Burst, served : Nat]]
    BY <2>1 DEF LimiterInv, LimiterTypes
  <2>2. LimiterInv'
    BY <2>1, <2>3 DEF LimiterInv, LimiterTypes, TickerWatchesTable, Entries
  <2> QED BY <1>8, <2>1, <2>2
<1>15. CASE UNCHANGED vars
  <2>1. UNCHANGED <<cookies, worker, now, limiter>>
    BY <1>15 DEF vars, cookies, limiter
  <2> QED BY <1>8, <1>9, <2>1, OnlyCookies
<1> QED BY <1>2, <1>3, <1>4, <1>5, <1>6, <1>7, <1>10, <1>11, <1>12, <1>13, <1>14, <1>15, <1>16
        DEF Next, InitiatorStep, GcStep

\* The invariant holds whatever workers, collector and peers interleave (Allow,
\* cleanup, CreateReply, ConsumeReply).
THEOREM Invariance == Spec => []Inv
<1>1. Inv /\ [Next]_vars => Inv'
  BY InvStep
<1> QED BY InvInit, <1>1, PTL DEF Spec

-----------------------------------------------------------------------------
(* The results *)

\* Variables keep their types, and no sequence of packets, refills, resets and
\* collections gives an entry more tokens than the burst or fewer than none
\* (Allow, cleanup).
THEOREM TypeCorrect == Spec => []TypeOK
<1>1. Inv => TypeOK
  BY DEF Inv, CookieInv, CookieTypes, LimiterInv, LimiterTypes, TypeOK, Checker, Generator
<1> QED BY Invariance, <1>1, PTL

\* Only messages from an address to which their cookie was sent get past
\* CheckMAC2 (RoutineHandshake, CreateReply, ConsumeReply).
THEOREM CookiesFromTheirAddress == Spec => []CookieFromItsAddress
<1>1. Inv => CookieFromItsAddress
  BY DEF Inv, CookieInv
<1> QED BY Invariance, <1>1, PTL

\* ConsumeReply never replaces a cookie by the one that answers an earlier
\* message, in whatever order replies come in.
THEOREM CookiesNeverOlder == Spec => CookieNeverOlder
<1>1. Inv /\ [Next]_vars => [gen'.key = gen.key => gen'.answers >= gen.answers]_gen
  BY InvStep
<1> QED BY Invariance, <1>1, PTL DEF Spec, CookieNeverOlder

\* Until Close, whenever mu is free a table with entries has a ticker that will
\* collect them, wherever a cleanup, a stop of the ticker and a reset meet (Init,
\* cleanup, Allow).
THEOREM TableIsWatched == Spec => []TickerWatchesTable
<1>1. Inv => TickerWatchesTable
  BY DEF Inv, LimiterInv
<1> QED BY Invariance, <1>1, PTL

-----------------------------------------------------------------------------
(* What an entry lets pass in a burst *)

\* An entry at time t: what it let pass and what it may still let pass.
Within(b, t) == b.served + (IF b.lastTime < t THEN Burst ELSE b.tokens) <= Burst + 1

BurstInv == \A e \in Entry : Within(entry[e], now)

LEMMA KeptWithin ==
    ASSUME NEW es, \A e \in Entry : Within(es[e], now), NEW t, NEW ws
    PROVE  \A e \in Entry : Within(Kept(es, t, ws)[e], now)
<1>1. Within(Unused, now)
  BY Constants DEF Within, Unused
<1> QED BY <1>1 DEF Kept

LEMMA InsertBurst ==
    ASSUME Inv, BurstInv, NEW w \in Worker, Insert(w)
    PROVE  BurstInv'
<1> DEFINE b == [lastTime |-> worker[w].lastTime, tokens |-> Burst - 1, served |-> 1]
           es == [entry EXCEPT ![NewEntry] = b]
<1>1. entry' = Kept(es, table', worker') /\ now' = now
  BY DEF Insert
<1>2. Within(b, now)
  BY Constants DEF Within
<1>3. entry \in [Entry -> Bucket]
  BY DEF Inv, LimiterInv, LimiterTypes, Bucket
<1> HIDE DEF b
<1>4. \A e \in Entry : Within(es[e], now)
  BY <1>2, <1>3 DEF BurstInv
<1> HIDE DEF es
<1> QED BY <1>1, <1>4, KeptWithin DEF BurstInv

LEMMA TakeBurst ==
    ASSUME Inv, BurstInv, NEW w \in Worker, NEW passed \in BOOLEAN, TakeToken(w, passed)
    PROVE  BurstInv'
<1> DEFINE e == worker[w].entry
           spent == [lastTime |-> now, tokens |-> Filled(e) - 1, served |-> entry[e].served + 1]
           left == [lastTime |-> now, tokens |-> Filled(e), served |-> entry[e].served]
           b == IF Enough(Filled(e), passed) THEN spent ELSE left
           es == [entry EXCEPT ![e] = b]
<1>1. entry \in [Entry -> Bucket] /\ e \in Entry /\ now \in Nat
  BY DEF TakeToken, At, Inv, CookieInv, CookieTypes, Local, LimiterInv, LimiterTypes, Bucket
<1>2. entry' = Kept(es, table, worker') /\ now' = now
  BY <1>1 DEF TakeToken, Spend
<1>3. entry[e].served \in Nat /\ Filled(e) \in Nat /\ entry[e].served + Filled(e) <= Burst + 1
  BY <1>1, Constants DEF Bucket, Filled, BurstInv, Within
<1>4. Within(b, now)
  <2> HIDE DEF e
  <2>1. Within(left, now) /\ Within(spent, now)
    BY <1>1, <1>3, Constants DEF Within
  <2> QED BY <2>1
<1> HIDE DEF b, e
<1>5. \A x \in Entry : Within(es[x], now)
  BY <1>1, <1>4 DEF BurstInv
<1> HIDE DEF es
<1> QED BY <1>2, <1>5, KeptWithin DEF BurstInv

LEMMA BurstStep == Inv /\ BurstInv /\ [Next]_vars => BurstInv'
<1> SUFFICES ASSUME Inv, BurstInv, [Next]_vars PROVE BurstInv'
  OBVIOUS
<1>1. ASSUME UNCHANGED <<entry, now>> PROVE BurstInv'
  BY <1>1 DEF BurstInv
<1>2. CASE Cleanup
  BY <1>2, KeptWithin DEF Cleanup, BurstInv
<1>3. CASE Tick
  <2>1. \A e \in Entry : entry'[e] = [entry[e] EXCEPT !.served = 0] /\ entry[e] \in Bucket
    BY <1>3 DEF Tick, Inv, LimiterInv, LimiterTypes, Bucket
  <2>2. SUFFICES ASSUME NEW e \in Entry PROVE Within(entry'[e], now')
    BY DEF BurstInv
  <2>3. entry'[e].served = 0 /\ entry'[e].tokens \in 0 .. Burst
    BY <2>1 DEF Bucket
  <2> QED BY <2>3, Constants DEF Within
<1>4. ASSUME NEW w \in Worker, WorkerStep(w) PROVE BurstInv'
  BY <1>1, <1>4, InsertBurst, TakeBurst
     DEF WorkerStep, NeedsRefresh, Refresh, CreateReply, Lookup, ReadClock, Reset, Panic, limiter
<1>5. ASSUME NEW w \in Worker, NEW m \in messages, Handle(w, m) PROVE BurstInv'
  BY <1>1, <1>5 DEF Handle, limiter
<1>6. CASE InitiatorStep \/ InitChecker
  <2>1. ASSUME NEW r \in replies, ConsumeReply(r) PROVE BurstInv'
    BY <1>1, <2>1 DEF ConsumeReply, limiter
  <2>2. ASSUME NEW a \in Addr, Roam(a) PROVE BurstInv'
    BY <1>1, <2>2 DEF Roam, limiter
  <2>3. CASE AddMacs \/ InitGenerator \/ InitChecker
    BY <1>1, <2>3 DEF AddMacs, InitGenerator, InitChecker, limiter
  <2> QED BY <1>6, <2>1, <2>2, <2>3 DEF InitiatorStep
<1>7. CASE GcTick \/ StopTicker \/ GcEnd \/ Close
  BY <1>1, <1>7 DEF GcTick, StopTicker, GcEnd, Close
<1>8. CASE UNCHANGED vars
  BY <1>1, <1>8 DEF vars
<1> QED BY <1>2, <1>3, <1>4, <1>5, <1>6, <1>7, <1>8 DEF Next, GcStep

\* However workers share an entry, whether or not it is still in the table, and
\* whenever it was stamped, an entry lets no more than the burst and the message
\* it was made for pass before the next tick (Allow, cleanup).
THEOREM BurstsAreBounded == Spec => []BurstPerEntry
<1>1. Init => BurstInv
  <2> SUFFICES ASSUME Init, NEW e \in Entry PROVE Within(entry[e], now)
    BY DEF BurstInv
  <2>1. entry[e].served = 0 /\ entry[e].tokens \in {0, Burst - 1}
    BY DEF Init, Unused
  <2> QED BY <2>1, Constants DEF Within
<1>2. Inv /\ BurstInv => BurstPerEntry
  <2> SUFFICES ASSUME Inv, BurstInv, NEW e \in Entry PROVE entry[e].served <= Burst + 1
    BY DEF BurstPerEntry
  <2>1. entry[e] \in Bucket /\ Within(entry[e], now)
    BY DEF Inv, LimiterInv, LimiterTypes, Bucket, BurstInv
  <2> QED BY <2>1, Constants DEF Within, Bucket
<1> QED BY Invariance, <1>1, <1>2, BurstStep, PTL DEF Spec
===============================================================================
