---------------------------- MODULE MCTunnelDaemon ----------------------------
(* Instances of TunnelDaemon for TLC. *)
EXTENDS TunnelDaemon

CONSTANTS d1, d2, wifi, mobile

OneDaemon == {d1}
TwoDaemons == {d1, d2}
OneGateway == {wifi}
Gateways == {wifi, mobile}
BothModes == {"userspace", "kmod"}
Userspace == {"userspace"}
===============================================================================
