---------------------------- MODULE MCPinExchange ----------------------------
(* Instances of PinExchange for TLC. *)
EXTENDS PinExchange, TLC

CONSTANTS p1, p2, r1, r2, s1, s2

(* The hint is keyed by a short locator: the PINs of an instance collide. *)
MCOneHint == [p \in Pins |-> 0]

(* Receivers are interchangeable, and so are PINs that share one hint. *)
PinAndReceiverSymmetry == Permutations(Receivers) \cup Permutations(Pins)
=============================================================================
