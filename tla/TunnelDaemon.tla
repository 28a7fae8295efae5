----------------------------- MODULE TunnelDaemon -----------------------------
(***************************************************************************)
(* How the application brings a tunnel up and keeps it up: the click       *)
(* handler of PickProfilePage.qml, Interface of interface.py, the process  *)
(* of daemon.py, and the amneziawg-go process it starts (main.go).         *)
(*                                                                         *)
(* Every external command (ip, awg setconf, sed, resolvconf) is a step of  *)
(* its own: the application, the daemons and the engines are separate      *)
(* processes that share one network interface, resolv.conf and nothing     *)
(* else.  What the commands do to the interface is the behaviour of the    *)
(* kernel the code counts on: an address cannot be added twice, setting a  *)
(* link down removes its routes and keeps its addresses, and deleting a    *)
(* TUN interface ends the process that owns it.                            *)
(*                                                                         *)
(* A "mutant:" comment marks a deliberately wrong variant of the           *)
(* definition that follows it; the properties tell the two apart.          *)
(***************************************************************************)
EXTENDS Naturals, Sequences

CONSTANTS
    Daemon,      \* daemon processes, one for each connect in user space
    App,         \* the application
    Gateway,     \* default gateways of the phone
    MaxClicks,   \* bound: clicks on the profile
    MaxMoves,    \* bound: changes of the default route
    Modes,       \* "userspace" and "kmod": settings.useUserspace
    MayFail      \* may amneziawg-go and the commands fail of themselves?

ASSUME DaemonAssumption == App \notin Daemon /\ MaxClicks \in Nat /\ MaxMoves \in Nat
ASSUME ModesAssumption == Modes \subseteq {"userspace", "kmod"}

VARIABLES
    link,     \* the network interface
    dns,      \* the name servers of the profile are in resolv.conf
    gateway,  \* get_preferred_def_route()
    engine,   \* daemon -> its amneziawg-go process
    proc,     \* process -> program counter and locals
    calls,    \* Python calls the user interface has queued
    shown,    \* c_status.init: the status the user sees
    clicks, moves

vars == <<link, dns, gateway, engine, proc, calls, shown, clicks, moves>>

Process == Daemon \cup {App}
NoLink == [exists |-> FALSE, owner |-> App, up |-> FALSE, conf |-> FALSE,
           addr |-> FALSE, routes |-> FALSE]
NewLink(owner) == [NoLink EXCEPT !.exists = TRUE, !.owner = owner]
Link == [exists : BOOLEAN, owner : Process, up : BOOLEAN, conf : BOOLEAN,
         addr : BOOLEAN, routes : BOOLEAN]

ConfigPC == {"setDown", "setconf", "address", "dns", "setUp", "routes"}
PC == ConfigPC \cup {"none", "boot", "sleep", "announce", "watch", "ended",
                     "idle", "delLink", "resetDns", "linkAdd", "startDaemon"}

TypeOK ==
    /\ link \in Link /\ (~link.exists => link = NoLink)
    /\ dns \in BOOLEAN /\ shown \in BOOLEAN
    /\ gateway \in Gateway
    /\ engine \in [Daemon -> {"none", "starting", "created", "serving", "exited"}]
    /\ proc \in [Process -> [pc : PC, route : Gateway, told : BOOLEAN,
                             call : {"none", "disconnect"} \cup Modes]]
    /\ calls \in Seq({"disconnect"} \cup Modes) /\ Len(calls) <= MaxClicks
    /\ clicks \in 0 .. MaxClicks /\ moves \in 0 .. MaxMoves

Init ==
    /\ link = NoLink /\ dns = FALSE /\ shown = FALSE
    /\ gateway \in Gateway
    /\ engine = [d \in Daemon |-> "none"]
    /\ proc = [p \in Process |-> [pc |-> IF p = App THEN "idle" ELSE "none",
                                  route |-> gateway, told |-> FALSE, call |-> "none"]]
    /\ calls = <<>> /\ clicks = 0 /\ moves = 0

At(p, pc) == proc[p].pc = pc
Goto(p, pc) == proc' = [proc EXCEPT ![p].pc = pc]
World == UNCHANGED <<gateway, calls, shown, clicks, moves>>

-----------------------------------------------------------------------------
(* The user interface: a click connects or disconnects, whichever the      *)
(* status last shown calls for.  The Python calls run one after the other. *)

Click ==
    /\ clicks < MaxClicks
    /\ clicks' = clicks + 1
    /\ \E mode \in Modes :
          calls' = Append(calls, IF shown THEN "disconnect" ELSE mode)
    /\ UNCHANGED <<link, dns, gateway, engine, proc, shown, moves>>

\* awg show lists an interface that is configured by its socket or its module.
Served(l) == l.exists /\ (l.owner \in Daemon => engine[l.owner] = "serving")

ShowStatus ==
    /\ At(App, "idle")
    /\ shown' = Served(link)
    /\ UNCHANGED <<link, dns, gateway, engine, proc, calls, clicks, moves>>

Call ==
    /\ At(App, "idle") /\ calls # <<>>
    /\ calls' = Tail(calls)
    /\ proc' = [proc EXCEPT ![App].pc = "delLink", ![App].call = Head(calls)]
    /\ UNCHANGED <<link, dns, gateway, engine, shown, clicks, moves>>

\* disconnect, which is also the first thing _connect does: "ip link del", then
\* "resolvconf -u", both with check=False.
DelLink ==
    /\ At(App, "delLink")
    /\ link' = NoLink \/ (MayFail /\ UNCHANGED link)
    /\ Goto(App, "resetDns")
    /\ UNCHANGED <<dns, engine>> /\ World

AfterDisconnect == CASE proc[App].call = "disconnect" -> "idle"
                     [] proc[App].call = "kmod" -> "linkAdd"
                     [] proc[App].call = "userspace" -> "startDaemon"

ResetDns ==
    /\ At(App, "resetDns")
    /\ dns' = FALSE \/ (MayFail /\ UNCHANGED dns)
    /\ Goto(App, AfterDisconnect)
    /\ UNCHANGED <<link, engine>> /\ World

\* With the kernel module the application configures the interface itself; an
\* exception ends the call and is shown to the user.
LinkAdd ==
    /\ At(App, "linkAdd")
    /\ \/ /\ ~link.exists
          /\ link' = NewLink(App) /\ Goto(App, "setDown")
       \/ /\ link.exists \/ MayFail
          /\ Goto(App, "idle") /\ UNCHANGED link
    /\ UNCHANGED <<dns, engine>> /\ World

StartDaemon ==
    /\ At(App, "startDaemon")
    /\ \E d \in Daemon :
          /\ At(d, "none")
          /\ proc' = [proc EXCEPT ![App].pc = "idle", ![d].pc = "boot"]
    /\ UNCHANGED <<link, dns, engine>> /\ World

-----------------------------------------------------------------------------
(* config_interface, run by a daemon or by the application.                *)

Ended(p) == IF p = App THEN "idle" ELSE "ended"

\* Where a caller of config_interface goes on; it ignores the error returned.
AfterConfig(p) == CASE p = App -> "idle"
                    [] p # App /\ proc[p].told -> "watch"
                    [] p # App /\ ~proc[p].told -> "announce"

\* "ip link set down" with check=False: a failure is not noticed.  The command is
\* the only one without the password on its input, so for the application, which
\* is not root, it fails unless sudo remembers the password.
SetDown(p) ==
    /\ At(p, "setDown")
    /\ \/ link' = [link EXCEPT !.up = FALSE, !.routes = FALSE]
       \/ /\ MayFail \/ p = App
          /\ UNCHANGED link
    /\ Goto(p, "setconf")
    /\ UNCHANGED <<dns, engine>> /\ World

Setconf(p) ==
    /\ At(p, "setconf") /\ Served(link)
    /\ link' = [link EXCEPT !.conf = TRUE]
    /\ Goto(p, "address")
    /\ UNCHANGED <<dns, engine>> /\ World

\* mutant: the configuration goes on although setconf failed
SetconfIgnored(p) ==
    /\ At(p, "setconf") /\ (MayFail \/ ~Served(link))
    /\ Goto(p, "address")
    /\ UNCHANGED <<link, dns, engine>> /\ World
SetconfFails(p) ==
    /\ At(p, "setconf") /\ (MayFail \/ ~Served(link))
    /\ Goto(p, AfterConfig(p))
    /\ UNCHANGED <<link, dns, engine>> /\ World

\* The commands that follow raise when they fail (check=True): this ends a daemon,
\* and the call of the application.
Raise(p) == Goto(p, Ended(p)) /\ UNCHANGED link

\* "ip address add" fails if there is no interface or it has the address.
Address(p) ==
    /\ At(p, "address")
    /\ \/ /\ link.exists /\ ~link.addr
          /\ link' = [link EXCEPT !.addr = TRUE] /\ Goto(p, "dns")
       \/ /\ ~link.exists \/ link.addr \/ MayFail
          /\ Raise(p)
    /\ UNCHANGED <<dns, engine>> /\ World

\* One sed for each name server: a failure may leave some of them.
AddDns(p) ==
    /\ At(p, "dns")
    /\ \/ dns' = TRUE /\ Goto(p, "setUp") /\ UNCHANGED link
       \/ MayFail /\ dns' \in {dns, TRUE} /\ Raise(p)
    /\ UNCHANGED engine /\ World

SetUp(p) ==
    /\ At(p, "setUp")
    /\ \/ link.exists /\ link' = [link EXCEPT !.up = TRUE] /\ Goto(p, "routes")
       \/ /\ ~link.exists \/ MayFail
          /\ Raise(p)
    /\ UNCHANGED <<dns, engine>> /\ World

\* "ip route add" fails if the interface is gone or down, or has the route.
AddRoutes(p) ==
    /\ At(p, "routes")
    /\ \/ /\ link.up /\ ~link.routes
          /\ link' = [link EXCEPT !.routes = TRUE] /\ Goto(p, AfterConfig(p))
       \/ /\ ~link.up \/ link.routes \/ MayFail
          /\ Raise(p)
    /\ UNCHANGED <<dns, engine>> /\ World

-----------------------------------------------------------------------------
(* keep_tunnel                                                             *)

\* The route is remembered and amneziawg-go started ...
Boot(d) ==
    /\ At(d, "boot")
    /\ proc' = [proc EXCEPT ![d].pc = "sleep", ![d].route = gateway]
    /\ engine' = [engine EXCEPT ![d] = "starting"]
    /\ UNCHANGED <<link, dns>> /\ World

\* ... and a second later, whatever became of it (p.returncode is None until
\* somebody polls), the interface is configured.
Sleep(d) ==
    /\ At(d, "sleep")
    /\ Goto(d, "setDown")
    /\ UNCHANGED <<link, dns, engine>> /\ World

\* "Tunnel is up"
Announce(d) ==
    /\ At(d, "announce")
    /\ proc' = [proc EXCEPT ![d].pc = "watch", ![d].told = TRUE]
    /\ UNCHANGED <<link, dns, engine>> /\ World

\* "New route via %s, reconfiguring interface"
Reconfigure(d) ==
    /\ At(d, "watch") /\ link.exists /\ proc[d].route # gateway
    /\ proc' = [proc EXCEPT ![d].pc = "setDown", ![d].route = gateway]
    /\ UNCHANGED <<link, dns, engine>> /\ World

\* "Interface %s no longer exists. Exiting"
\* mutant: the loop does not look at the interface
WatchForever(d) == FALSE /\ UNCHANGED vars
Exit(d) ==
    /\ At(d, "watch") /\ ~link.exists
    /\ Goto(d, "ended")
    /\ UNCHANGED <<link, dns, engine>> /\ World

-----------------------------------------------------------------------------
(* amneziawg-go: CreateTUN, UAPIOpen, and Close when reading from the TUN  *)
(* device fails.                                                           *)

CreateTUN(d) ==
    /\ engine[d] = "starting"
    /\ IF link.exists
       THEN engine' = [engine EXCEPT ![d] = "exited"] /\ UNCHANGED link
       ELSE engine' = [engine EXCEPT ![d] = "created"] /\ link' = NewLink(d)
    /\ UNCHANGED <<dns, proc>> /\ World

UAPIOpen(d) ==
    /\ engine[d] = "created" /\ link.owner = d
    /\ engine' = [engine EXCEPT ![d] = "serving"]
    /\ UNCHANGED <<link, dns, proc>> /\ World

StartFails(d) ==
    /\ MayFail /\ engine[d] \in {"starting", "created"}
    /\ engine' = [engine EXCEPT ![d] = "exited"]
    /\ link' = IF link.owner = d THEN NoLink ELSE link
    /\ UNCHANGED <<dns, proc>> /\ World

DeviceCloses(d) ==
    /\ engine[d] \in {"created", "serving"} /\ link.owner # d
    /\ engine' = [engine EXCEPT ![d] = "exited"]
    /\ UNCHANGED <<link, dns, proc>> /\ World

\* The phone moves to another network.
Move ==
    /\ moves < MaxMoves
    /\ moves' = moves + 1
    /\ gateway' \in Gateway \ {gateway}
    /\ UNCHANGED <<link, dns, engine, proc, calls, shown, clicks>>

ConfigStep(p) ==
    \/ SetDown(p) \/ Setconf(p) \/ SetconfFails(p) \/ Address(p)
    \/ AddDns(p) \/ SetUp(p) \/ AddRoutes(p)
AppStep ==
    \/ Call \/ DelLink \/ ResetDns \/ LinkAdd \/ StartDaemon \/ ConfigStep(App)
DaemonStep(d) ==
    \/ Boot(d) \/ Sleep(d) \/ Announce(d) \/ Reconfigure(d) \/ Exit(d)
    \/ ConfigStep(d)
EngineStep(d) == CreateTUN(d) \/ UAPIOpen(d) \/ StartFails(d) \/ DeviceCloses(d)

Next ==
    \/ Click \/ ShowStatus \/ AppStep \/ Move
    \/ \E d \in Daemon : DaemonStep(d) \/ EngineStep(d)

\* The processes run; nobody has to click or to move.
Fairness ==
    /\ WF_vars(AppStep)
    /\ \A d \in Daemon : WF_vars(DaemonStep(d)) /\ WF_vars(EngineStep(d))

Spec == Init /\ [][Next]_vars
FairSpec == Spec /\ Fairness

-----------------------------------------------------------------------------
(* Properties                                                              *)

Booting(d) == proc[d].pc = "boot" \/ engine[d] = "starting"
Active(d) == proc[d].pc \notin {"none", "ended"}

\* An interface that is up has been given its keys, its peers and its address.
\* The callers of config_interface ignore the error it returns, so this rests
\* on the order of the commands and the early return between them.  It is for
\* one daemon: a second one may be in the middle of its commands when the
\* interface is made anew.
UpMeansConfigured == link.up => link.conf /\ link.addr

\* No call is queued or running.
AppAtRest == At(App, "idle") /\ calls = <<>>

\* If the application is at rest after a disconnect, the interface is deleted
\* and no daemon was still about to create it, then it stays deleted and every
\* daemon and every amneziawg-go process ends, wherever they were.
DisconnectEndsAll ==
    (/\ AppAtRest /\ proc[App].call = "disconnect" /\ ~link.exists
     /\ \A d \in Daemon : ~Booting(d))
        ~> \/ ~AppAtRest
           \/ /\ ~link.exists
              /\ \A d \in Daemon : ~Active(d) /\ engine[d] \in {"none", "exited"}

\* daemon.py says "Tunnel is up" when it is, unless it was deleted meanwhile.
TunnelIsUp == \A d \in Daemon : At(d, "announce") => link.up \/ ~link.exists

\* daemon.py keeps the tunnel: if it is up when the default route changes, then
\* after "New route via %s, reconfiguring interface" it is up again, unless it
\* was deleted.
RouteChangeKeepsTunnel == \A d \in Daemon :
    (At(d, "watch") /\ link.up /\ proc[d].route # gateway)
        ~> \/ At(d, "watch") /\ link.up /\ proc[d].route = gateway
           \/ ~link.exists

\* interface.py says "Disconnected": there is no tunnel until the next call.
DisconnectedStaysDown ==
    (AppAtRest /\ proc[App].call = "disconnect") ~> (~AppAtRest \/ ~link.exists)

\* disconnect resets the name servers (interface.py:123): once everything has ended
\* those of the tunnel are gone.
DnsIsReset ==
    AppAtRest /\ proc[App].call = "disconnect" /\ (\A d \in Daemon : ~Active(d))
        => ~dns
===============================================================================
