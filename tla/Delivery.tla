------------------------------- MODULE Delivery -------------------------------
(***************************************************************************)
(* What any transport of `ptransfer` promises about one file: it is in the *)
(* receiver's hands only whole, and the sender reports success only after  *)
(* that.  Either side may give up; a receiver that has the file may still  *)
(* end with an error, and so may its sender.                               *)
(***************************************************************************)
VARIABLES
  held,      \* has the receiver the whole verified file?
  sender,    \* how the sender's run ended, or "active"
  receiver   \* how the receiver's run ended, or "active"

vars == <<held, sender, receiver>>

Init == held = FALSE /\ sender = "active" /\ receiver = "active"

Take ==
  /\ receiver = "active" /\ ~ held
  /\ held' = TRUE
  /\ UNCHANGED <<sender, receiver>>

ReceiverEnds ==
  /\ receiver = "active"
  /\ receiver' \in {"failed"} \cup {r \in {"ok"} : held}
  /\ UNCHANGED <<held, sender>>

SenderEnds ==
  /\ sender = "active"
  /\ sender' \in {"failed"} \cup {r \in {"ok"} : held}
  /\ UNCHANGED <<held, receiver>>

Next == Take \/ ReceiverEnds \/ SenderEnds

Spec == Init /\ [][Next]_vars
=============================================================================
