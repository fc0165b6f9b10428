------------------------------- MODULE Pairing -------------------------------
(***************************************************************************)
(* What the PIN Exchange handshake promises, with no relay, element, claim *)
(* or budget in sight: a sender honours some of the PINs it issued, a      *)
(* person carries one PIN to one receiver, a sender pairs with at most one *)
(* receiver and only over a PIN it still honours, the receiver learns of   *)
(* the pairing afterwards, and the sender opens the transfer last, after   *)
(* the receiver it paired with has accepted it.                            *)
(*                                                                         *)
(* PinExchange implements this specification: runs of MCPinExchange check  *)
(* it, and the theorem Refinement of PinExchange_refines proves it.        *)
(***************************************************************************)
CONSTANTS Senders, Receivers, Pins, None

VARIABLES
  issued,     \* issued[s]: the PINs sender s has ever displayed
  honoured,   \* honoured[s]: those of them a receiver may still pair over
  typed,      \* typed[r]: the PIN the operator of receiver r typed, or None
  partner,    \* partner[s]: the receiver s is locked to, or None
  accepted,   \* accepted[r]: the sender r has a confirmed session with
  open        \* the senders whose operator let the transfer start

vars == <<issued, honoured, typed, partner, accepted, open>>

Issued == UNION {issued[s] : s \in Senders}

Init ==
  /\ issued = [s \in Senders |-> {}]
  /\ honoured = [s \in Senders |-> {}]
  /\ typed = [r \in Receivers |-> None]
  /\ partner = [s \in Senders |-> None]
  /\ accepted = [r \in Receivers |-> None]
  /\ open = {}

(* A PIN is displayed by one sender only, and displaying one may retire
   others. *)
Issue(s, p) ==
  /\ partner[s] = None
  /\ p \notin Issued
  /\ issued' = [issued EXCEPT ![s] = @ \cup {p}]
  /\ \E kept \in SUBSET (honoured[s] \cup {p}) :
       honoured' = [honoured EXCEPT ![s] = kept]
  /\ UNCHANGED <<typed, partner, accepted, open>>

(* PINs stop being honoured, by time or by refresh, and never come back. *)
Retire ==
  /\ honoured' \in [Senders -> SUBSET Issued]
  /\ \A s \in Senders : honoured'[s] \subseteq honoured[s]
  /\ UNCHANGED <<issued, typed, partner, accepted, open>>

Type(r, p) ==
  /\ typed[r] = None
  /\ p \in Issued
  /\ typed' = [typed EXCEPT ![r] = p]
  /\ UNCHANGED <<issued, honoured, partner, accepted, open>>

Pair(s, r) ==
  /\ partner[s] = None
  /\ typed[r] \in honoured[s]
  /\ partner' = [partner EXCEPT ![s] = r]
  /\ honoured' = [honoured EXCEPT ![s] = {}]
  /\ UNCHANGED <<issued, typed, accepted, open>>

Accept(r, s) ==
  /\ accepted[r] = None
  /\ partner[s] = r
  /\ accepted' = [accepted EXCEPT ![r] = s]
  /\ UNCHANGED <<issued, honoured, typed, partner, open>>

Open(s) ==
  /\ partner[s] # None
  /\ accepted[partner[s]] = s
  /\ open' = open \cup {s}
  /\ UNCHANGED <<issued, honoured, typed, partner, accepted>>

Next ==
  \/ \E s \in Senders, p \in Pins : Issue(s, p)
  \/ Retire
  \/ \E r \in Receivers, p \in Pins : Type(r, p)
  \/ \E s \in Senders, r \in Receivers : Pair(s, r) \/ Accept(r, s)
  \/ \E s \in Senders : Open(s)

Spec == Init /\ [][Next]_vars
=============================================================================
