---------------------------- MODULE MCOutboundFlow ----------------------------
(* Instances of OutboundFlow for TLC. *)
EXTENDS OutboundFlow

CONSTANTS tun, timer, receiver

TwoThreads == {tun, timer}
ThreeThreads == {tun, timer, receiver}
===============================================================================
