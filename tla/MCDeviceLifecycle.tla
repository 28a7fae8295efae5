-------------------------- MODULE MCDeviceLifecycle --------------------------
(* Instances of DeviceLifecycle for TLC. *)
EXTENDS DeviceLifecycle, TLC

CONSTANTS c1, c2, p1, p2, w1

OneCaller == {c1}
TwoCallers == {c1, c2}
OnePeer == {p1}
TwoPeers == {p1, p2}
OneWorker == {w1}
AllOps == {"Up", "Down", "Close", "Add", "Remove", "ListenPort", "BindUpdate"}
UpDownAdd == {"Up", "Down", "Add"}
UpAddBind == {"Up", "Add", "BindUpdate"}
UpAddRemoveBind == {"Up", "Add", "Remove", "BindUpdate"}
==============================================================================
