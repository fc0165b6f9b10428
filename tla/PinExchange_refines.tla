-------------------------- MODULE PinExchange_refines --------------------------
(***************************************************************************)
(* PinExchange implements Pairing, for every instance: the initial states  *)
(* map to initial states and every step maps to a step or a stutter.       *)
(***************************************************************************)
EXTENDS PinExchange_proofs

Partner(s) == IF locked[s] = None THEN None ELSE locked[s].by
Accepted(r) == IF session[r] = None THEN None ELSE session[r].target.from
Opened == {s \in Senders : spc[s] \in AfterGate}

(* A step after which no PIN is honoured that was not honoured before. *)
LEMMA RetireStep ==
  ASSUME IInv, IInv', UNCHANGED <<shown, rpin, locked, session>>, Opened' = Opened,
         \A s \in Senders : ActivePins(s)' \subseteq ActivePins(s)
  PROVE  Abstract!Retire
<1>1. \A s \in Senders : ActivePins(s)' \subseteq shown[s]
  BY DEF IInv, PinInv, ActivePins
<1>2. UNCHANGED <<shown, rpin, [s \in Senders |-> Partner(s)], [r \in Receivers |-> Accepted(r)], Opened>>
  BY DEF Partner, Accepted
<1> QED
  BY <1>1, <1>2 DEF Abstract!Retire, Abstract!Issued, Partner, Accepted, Opened, AfterGate

(* What a step may change of the state Pairing sees. *)
PairingVars == <<shown, rpin, [s \in Senders |-> Partner(s)], [r \in Receivers |-> Accepted(r)], Opened>>

(* The clock only retires PINs. *)
LEMMA TickRefines ==
  ASSUME IInv, IInv', Tick \/ UNCHANGED vars PROVE Abstract!Retire
<1>1. UNCHANGED <<senderVars, receiverVars>>
  BY DEF Tick, vars
<1>2. ASSUME NEW s \in Senders, NEW g \in gens[s], IsActive(g.bucket)' PROVE IsActive(g.bucket)
  <2>1. now \in Nat /\ g.bucket \in Nat /\ g.bucket <= now /\ now' \in {now, now + 1}
    BY DEF IInv, TypeOK, Generation, ClockInv, Tick, vars
  <2> QED
    BY <1>2, <2>1 DEF IsActive
<1>3. \A s \in Senders : ActivePins(s)' \subseteq ActivePins(s)
  BY <1>1, <1>2 DEF ActivePins, senderVars
<1> QED
  BY <1>1, <1>3, RetireStep DEF senderVars, receiverVars, Opened

(* The position of a sender after the code gate is left or entered only there. *)
LEMMA OpenedStep ==
  ASSUME IInv, NEW s \in Senders, SenderNext(s), \A r \in Receivers : ~ EnterCode(s, r)
  PROVE  Opened' = Opened
<1> SUFFICES /\ \A t \in Senders \ {s} : spc'[t] = spc[t]
             /\ spc'[s] \in AfterGate <=> spc[s] \in AfterGate
  BY DEF Opened
<1> USE DEF IInv, TypeOK, AfterGate
<1>1. CASE Publishes(s)
  BY <1>1, MintCases DEF MintPin
<1>2. CASE \/ PublishFailed(s) \/ WaitTimeout(s) \/ GateTimeout(s)
           \/ \E lands \in BOOLEAN : ConfirmFailed(s, lands) \/ OfferFailed(s, lands)
  BY <1>2, FailCases DEF Fail
<1>3. CASE PublishedFresh(s) \/ TakesClaim(s) \/ ReplacementDone(s)
  BY <1>3 DEF PublishedFresh, TakesClaim, IgnoreClaim, SpendElement, Delivers, ReplacementDone
<1>4. CASE FinishesClaim(s)
  BY <1>4 DEF FinishesClaim, LockToReceiver, ReplaceElement, LeaveStalled, Rejected
<1>5. CASE ConfirmPublished(s) \/ PublishOffer(s)
  BY <1>5 DEF ConfirmPublished, PublishOffer, Advance
<1> QED
  BY <1>1, <1>2, <1>3, <1>4, <1>5 DEF SenderNext

(* A sender's step leaves what receivers have typed and accepted alone. *)
LEMMA SenderLeaves ==
  ASSUME NEW s \in Senders, SenderNext(s)
  PROVE  /\ UNCHANGED <<now, rpin, session>>
         /\ ~ PublishedFresh(s) => UNCHANGED shown
         /\ ~ LockToReceiver(s) => UNCHANGED locked
  BY DEF SenderNext, Publishes, FirstPin, RotatePin, RefreshPin, MintPin, PublishedFresh, PublishFailed,
     WaitTimeout, TakesClaim, IgnoreClaim, SpendElement, FinishesClaim, LockToReceiver, ReplaceElement,
     LeaveStalled, ReplacementDone, ConfirmPublished, ConfirmFailed, EnterCode, GateTimeout,
     PublishOffer, OfferFailed, Advance, Fail, receiverVars

(* Displaying an acknowledged PIN is Pairing's Issue. *)
LEMMA IssueRefines ==
  ASSUME IInv, IInv', NEW s \in Senders, PublishedFresh(s)
  PROVE  Abstract!Issue(s, draft[s].pin)
<1> USE DEF IInv
<1>1. draft[s] # None /\ locked[s] = None /\ UNCHANGED <<now, rpin, locked, session>>
  BY DEF PublishedFresh, PcInv, BeforeLock, receiverVars
<1>2. shown' = [shown EXCEPT ![s] = @ \cup {draft[s].pin}]
  BY DEF PublishedFresh
<1>3. \A t \in Senders : draft[s].pin \notin shown[t]
  BY <1>1 DEF PinInv
<1>4. gens'[s] \subseteq gens[s] \cup {draft[s]} /\ \A t \in Senders \ {s} : gens'[t] = gens[t]
  BY DEF PublishedFresh, TypeOK
<1>5. /\ ActivePins(s)' \subseteq ActivePins(s) \cup {draft[s].pin}
      /\ \A t \in Senders \ {s} : ActivePins(t)' = ActivePins(t)
  BY <1>1, <1>4 DEF ActivePins, IsActive
<1>6. [t \in Senders |-> ActivePins(t)]' =
        [[t \in Senders |-> ActivePins(t)] EXCEPT ![s] = ActivePins(s)']
  BY <1>5
<1>7. Opened' = Opened
  BY DEF PublishedFresh, Opened, AfterGate, TypeOK
<1>8. Partner(s) = None
  BY <1>1 DEF Partner
<1> QED
  BY <1>1, <1>2, <1>3, <1>5, <1>6, <1>7, <1>8
  DEF Abstract!Issue, Abstract!Issued, Partner, Accepted, Opened, AfterGate

(* Locking to a verified claim is Pairing's Pair. *)
LEMMA PairRefines ==
  ASSUME IInv, IInv', NEW s \in Senders, SenderNext(s), LockToReceiver(s)
  PROVE  \E r \in Receivers : Abstract!Pair(s, r)
<1> USE DEF IInv
<1> DEFINE c == handling[s]
<1>1. c \in Claim /\ c \in posted /\ locked[s] = None
  BY NoneAssumption DEF LockToReceiver, PcInv, ClaimInv, BeforeLock, TypeOK
<1>2. PICK r \in Receivers : r = c.by /\ rpin[r] = c.pin
  BY <1>1 DEF Claim, ClaimInv
<1>3. PICK g \in gens[s] : Verifies(g, c)
  BY DEF LockToReceiver
<1>4. rpin[r] \in ActivePins(s)
  BY <1>2, <1>3 DEF Verifies, ActivePins
<1>5. /\ locked' = [locked EXCEPT ![s] = c]
      /\ gens' = [gens EXCEPT ![s] = {}]
      /\ UNCHANGED <<now, shown, rpin, session>>
  BY DEF LockToReceiver, receiverVars
<1>6. /\ ActivePins(s)' = {}
      /\ \A t \in Senders \ {s} : ActivePins(t)' = ActivePins(t)
  BY <1>5 DEF ActivePins, IsActive, TypeOK
<1>7. [t \in Senders |-> ActivePins(t)]' = [[t \in Senders |-> ActivePins(t)] EXCEPT ![s] = {}]
  BY <1>6
<1>8. /\ Partner(s) = None /\ Partner(s)' = r
      /\ \A t \in Senders \ {s} : Partner(t)' = Partner(t)
  BY <1>1, <1>2, <1>5, NoneAssumption DEF Partner, TypeOK
<1>9. [t \in Senders |-> Partner(t)]' = [[t \in Senders |-> Partner(t)] EXCEPT ![s] = r]
  BY <1>8
<1>10. Opened' = Opened
  BY DEF LockToReceiver, Opened, AfterGate, TypeOK
<1>11. Abstract!Pair(s, r)
  BY <1>4, <1>5, <1>7, <1>8, <1>9, <1>10 DEF Abstract!Pair, Partner, Accepted, Opened, AfterGate
<1> QED
  BY <1>11

(* Passing the code gate is Pairing's Open. *)
LEMMA OpenRefines ==
  ASSUME IInv, IInv', NEW s \in Senders, NEW r \in Receivers, EnterCode(s, r)
  PROVE  Abstract!Open(s)
<1> USE DEF IInv
<1>1. locked[s] \in Claim /\ locked[s] # None /\ session[r] = locked[s] /\ locked[s].target.from = s
  BY DEF EnterCode, Advance, PcInv, AfterLock, ClaimInv, TypeOK
<1>2. locked[s].by = r
  BY <1>1 DEF SessionInv
<1>3. Partner(s) = r /\ Accepted(r) = s /\ r # None
  BY <1>1, <1>2, NoneAssumption DEF Partner, Accepted
<1>4. UNCHANGED <<now, gens, shown, rpin, locked, session>>
  BY DEF EnterCode, Advance, receiverVars
<1>5. Opened' = Opened \cup {s}
  BY DEF EnterCode, Advance, Opened, AfterGate, TypeOK
<1>6. [t \in Senders |-> ActivePins(t)]' = [t \in Senders |-> ActivePins(t)]
  BY <1>4 DEF ActivePins, IsActive
<1> QED
  BY <1>3, <1>4, <1>5, <1>6 DEF Abstract!Open, Partner, Accepted, Opened, AfterGate

(* Every other step of a sender only retires PINs, or nothing. *)
LEMMA SenderRefines ==
  ASSUME IInv, IInv', NEW s \in Senders, SenderNext(s) PROVE Abstract!Next
<1>1. CASE PublishedFresh(s)
  <2>1. draft[s].pin \in Pins
    BY <1>1, NoneAssumption DEF IInv, PublishedFresh, PcInv, TypeOK, Generation
  <2> QED
    BY <1>1, <2>1, IssueRefines DEF Abstract!Next
<1>2. CASE LockToReceiver(s)
  BY <1>2, PairRefines DEF Abstract!Next
<1>3. CASE \E r \in Receivers : EnterCode(s, r)
  BY <1>3, OpenRefines DEF Abstract!Next
<1>4. CASE /\ ~ PublishedFresh(s) /\ ~ LockToReceiver(s)
           /\ \A r \in Receivers : ~ EnterCode(s, r)
  <2>1. UNCHANGED <<now, shown, rpin, locked, session>> /\ Opened' = Opened
    BY <1>4, SenderLeaves, OpenedStep
  <2>2. ASSUME NEW t \in Senders PROVE ActivePins(t)' \subseteq ActivePins(t)
    BY <1>4, <2>1, GenerationStep DEF ActivePins, IsActive, IInv
  <2> QED
    BY <2>1, <2>2, RetireStep DEF Abstract!Next
<1> QED
  BY <1>1, <1>2, <1>3, <1>4

(* Typing a PIN is Pairing's Type, taking a confirm is its Accept, and no other
   step of a receiver shows. *)
LEMMA ReceiverRefines ==
  ASSUME IInv, IInv', NEW r \in Receivers, ReceiverNext(r) PROVE Abstract!Next
<1> USE DEF IInv
<1>1. UNCHANGED <<now, gens, shown, locked, spc>>
  BY ReceiverFrame DEF senderVars
<1>2. /\ [s \in Senders |-> ActivePins(s)]' = [s \in Senders |-> ActivePins(s)]
      /\ Opened' = Opened
      /\ [s \in Senders |-> Partner(s)]' = [s \in Senders |-> Partner(s)]
  BY <1>1 DEF ActivePins, IsActive, Opened, Partner
<1>3. ASSUME NEW p \in Pins, TypePin(r, p) PROVE Abstract!Type(r, p)
  <2>1. rpin[r] = None /\ p \in UNION {shown[s] : s \in Senders}
        /\ rpin' = [rpin EXCEPT ![r] = p] /\ UNCHANGED session
    BY <1>3 DEF TypePin, PcInv
  <2> QED
    BY <1>1, <1>2, <2>1 DEF Abstract!Type, Abstract!Issued, Partner, Accepted, Opened, AfterGate
<1>4. ASSUME NEW c \in claims[r], ReceiveConfirm(r, c)
      PROVE  \E s \in Senders : Abstract!Accept(r, s)
  <2>1. c \in Claim /\ c \in confirms /\ c.by = r /\ c # None
    BY <1>4, NoneAssumption DEF ReceiveConfirm, MatchesConfirm, ClaimInv, TypeOK
  <2> PICK s \in Senders : s = c.target.from
    BY <2>1 DEF Claim, Element
  <2>2. locked[s] = c /\ session[r] = None
    BY <1>4, <2>1 DEF ReceiveConfirm, PcInv, SessionInv
  <2>3. UNCHANGED rpin /\ session' = [session EXCEPT ![r] = c]
    BY <1>4 DEF ReceiveConfirm
  <2>4. /\ Accepted(r) = None /\ Partner(s) = r /\ Accepted(r)' = s
        /\ \A q \in Receivers \ {r} : Accepted(q)' = Accepted(q)
    BY <2>1, <2>2, <2>3 DEF Accepted, Partner, TypeOK
  <2>5. [q \in Receivers |-> Accepted(q)]' = [[q \in Receivers |-> Accepted(q)] EXCEPT ![r] = s]
    BY <2>4
  <2>6. Abstract!Accept(r, s)
    BY <1>1, <1>2, <2>3, <2>4, <2>5 DEF Abstract!Accept, Partner, Accepted, Opened, AfterGate
  <2> QED
    BY <2>6
<1>5. CASE UNCHANGED <<rpin, session>>
  BY <1>1, <1>2, <1>5, RetireStep DEF Abstract!Next, ActivePins, IsActive
<1> QED
  BY <1>3, <1>4, <1>5
  DEF Abstract!Next, ReceiverNext, ClaimCandidates, NothingFound, ClaimsRefused, Reclaims, Reclaim,
      ConfirmTimeout, AcceptFile, DeclineFile, ReceiveOffer, OfferTimeout, Move

(* Every behaviour of the handshake is one of Pairing: a sender pairs with one
   receiver at most, over a PIN it still honours, and opens the transfer only
   after that receiver has accepted it. *)
THEOREM Refinement == Spec => ImplementsPairing
<1>1. Init => Abstract!Init
  BY DEF Init, Abstract!Init, ActivePins, AfterGate
<1>2. IInv /\ IInv' /\ [Next]_vars => [Abstract!Next]_Abstract!vars
  <2>1. ASSUME IInv, IInv', Next PROVE Abstract!Next
    <3>1. Abstract!Retire => Abstract!Next
      BY DEF Abstract!Next
    <3> QED
      BY <2>1, <3>1, TickRefines, SenderRefines, ReceiverRefines DEF Next
  <2>2. ASSUME IInv, IInv', UNCHANGED vars PROVE Abstract!Next
    BY <2>2, TickRefines DEF Abstract!Next
  <2> QED
    BY <2>1, <2>2
<1> QED
  BY <1>1, <1>2, Invariance, PTL DEF Spec, ImplementsPairing, Abstract!Spec
=============================================================================
