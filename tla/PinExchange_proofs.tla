-------------------------- MODULE PinExchange_proofs --------------------------
(***************************************************************************)
(* Theorems about PinExchange, for every number of senders, receivers and  *)
(* PINs and every value of the limits.                                     *)
(*                                                                         *)
(* IInv is the inductive invariant: TypeOK, and seven parts that each      *)
(* relate a few variables.                                                 *)
(***************************************************************************)
EXTENDS PinExchange, FiniteSetTheorems, TLAPS

BeforeLock == {"idle", "publishing", "waiting", "verifying", "republishing"}
AfterLock == {"confirming", "gate", "offering", "offered", "dropped"}
AfterGate == {"offering", "offered", "dropped"}
HasSession == {"confirmed", "expecting", "answering"}

(* What each position of a sender or a receiver implies about what it holds. *)
PcInv ==
  /\ \A s \in Senders :
       /\ spc[s] \in BeforeLock => locked[s] = None
       /\ spc[s] \in AfterLock => locked[s] # None
       /\ spc[s] = "verifying" <=> handling[s] # None
       /\ spc[s] = "publishing" <=> draft[s] # None
  /\ \A r \in Receivers :
       /\ rpc[r] \in {"idle", "searching", "awaiting"} => session[r] = None
       /\ rpc[r] \in HasSession => session[r] # None
       /\ rpc[r] = "idle" <=> rpin[r] = None

(* A receiver counts the candidates it selects. *)
FiniteInv == IsFiniteSet(board)

(* No generation is of a bucket yet to come, so none becomes active again. *)
ClockInv ==
  \A s \in Senders :
    /\ \A g \in gens[s] : g.bucket <= now
    /\ draft[s] # None => draft[s].bucket <= now

(* Where claims come from: a claim the relays hold was made by a receiver that
   has typed its PIN, and a sender handles and locks only claims on itself. *)
ClaimInv ==
  /\ \A c \in posted : rpin[c.by] = c.pin
  /\ \A r \in Receivers : \A c \in claims[r] : c.by = r
  /\ \A s \in Senders :
       /\ handling[s] # None => handling[s] \in posted /\ handling[s].target.from = s
       /\ locked[s] # None => locked[s] \in posted /\ locked[s].target.from = s

(* The PINs of a sender: retained ones are displayed and not retired, the one
   being published is nobody else's. *)
PinInv ==
  /\ \A s \in Senders :
       /\ shown[s] \subseteq drawn
       /\ retired[s] \subseteq shown[s]
       /\ \A g \in gens[s] : g.pin \in shown[s] \ retired[s]
       /\ locked[s] # None => locked[s].pin \notin retired[s]
       /\ draft[s] # None =>
            /\ draft[s].pin \in drawn
            /\ \A t \in Senders : draft[s].pin \notin shown[t]
  /\ \A s, t \in Senders :
       draft[s] # None /\ draft[t] # None /\ draft[s].pin = draft[t].pin => s = t

(* The runs of a sender: numbered, each on offer by the generation of its PIN
   or by none, and spent ones are never on offer again. *)
RunInv ==
  \A s \in Senders :
    /\ \A e \in spent[s] : e.n <= runs[s]
    /\ \A g \in gens[s] : g.run # None =>
         /\ g.run.pin = g.pin
         /\ g.run.n <= runs[s]
         /\ g.run \notin spent[s]
    /\ \A g, h \in gens[s] : g.pin = h.pin => g = h
    /\ draft[s] # None =>
         /\ draft[s].run # None
         /\ draft[s].run.pin = draft[s].pin
         /\ draft[s].run.n <= runs[s]
         /\ draft[s].run \notin spent[s]

(* The sessions: a confirm or an offer is of the session its sender is locked
   to, and a receiver takes its session from a confirm. *)
SessionInv ==
  /\ \A c \in confirms : locked[c.target.from] = c
  /\ \A c \in offers : locked[c.target.from] = c /\ spc[c.target.from] \in {"offered", "dropped"}
  /\ \A r \in Receivers :
       /\ session[r] # None => session[r] \in confirms /\ session[r].by = r
       /\ rpc[r] = "answering" => session[r] \in offers
  /\ \A s \in Senders : spc[s] \in AfterGate => session[locked[s].by] = locked[s]

IInv == TypeOK /\ PcInv /\ FiniteInv /\ ClockInv /\ ClaimInv /\ PinInv /\ RunInv /\ SessionInv

-----------------------------------------------------------------------------
(* A fresh SPAKE2 run is an element, whatever PIN and bucket it is for. *)
LEMMA ElementType ==
  ASSUME TypeOK, NEW s \in Senders, NEW p \in Pins, NEW b \in Nat
  PROVE  NewElement(s, p, b) \in Element
  BY DEF TypeOK, NewElement, Element

(* Minting a PIN (publish_fresh_pin up to its publish) keeps what it touches
   well typed. *)
LEMMA MintType ==
  ASSUME TypeOK, NEW s \in Senders, NEW p \in Pins, NEW lands, MintPin(s, p, lands)
  PROVE  /\ now' \in Nat /\ drawn' \subseteq Pins /\ board' \subseteq Element
         /\ draft' \in [Senders -> Generation \cup {None}]
         /\ draft'[s] \in Generation
         /\ draft'[s].pin = p
         /\ draft'[s].run = NewElement(s, p, now)
         /\ draft'[s].run \in Element
         /\ \A t \in Senders \ {s} : draft'[t] = draft[t]
         /\ runs' \in [Senders -> Nat]
         /\ spc' \in [Senders -> SenderPC]
         /\ UNCHANGED <<posted, confirms, offers, handling, locked, seen, shown, spent, receiverVars>>
<1>1. NewElement(s, p, now) \in Element
  BY ElementType DEF TypeOK
<1>2. [pin |-> p, bucket |-> now, run |-> NewElement(s, p, now), budget |-> VerifyLimit] \in Generation
  BY <1>1, LimitsAssumption DEF Generation, TypeOK
<1>3. board' \subseteq Element
  BY <1>1 DEF MintPin, Store, TypeOK
<1>4. spc' \in [Senders -> SenderPC]
  BY DEF MintPin, TypeOK, SenderPC
<1>5. draft'[s] = [pin |-> p, bucket |-> now, run |-> NewElement(s, p, now), budget |-> VerifyLimit]
  BY DEF MintPin, TypeOK
<1>6. /\ draft' \in [Senders -> Generation \cup {None}]
      /\ \A t \in Senders \ {s} : draft'[t] = draft[t]
  BY <1>2 DEF MintPin, TypeOK
<1> QED
  BY <1>1, <1>2, <1>3, <1>4, <1>5, <1>6 DEF MintPin, TypeOK

(* Every step of a sender preserves the type invariant. *)
LEMMA SenderTypeStep ==
  ASSUME TypeOK, PcInv, NEW s \in Senders, SenderNext(s) PROVE TypeOK'
<1> USE DEF relayVars, receiverVars
<1>1. ASSUME NEW p \in Pins, NEW lands \in BOOLEAN, FirstPin(s, p, lands) PROVE TypeOK'
  BY <1>1, MintType DEF FirstPin, TypeOK
<1>2. ASSUME NEW p \in Pins, NEW lands \in BOOLEAN, RotatePin(s, p, lands) PROVE TypeOK'
  BY <1>2, MintType DEF RotatePin, TypeOK
<1>3. ASSUME NEW p \in Pins, NEW lands \in BOOLEAN, RefreshPin(s, p, lands) PROVE TypeOK'
  BY <1>3, MintType DEF RefreshPin, TypeOK
<1>4. CASE PublishedFresh(s)
  <2>1. draft[s] \in Generation
    BY <1>4, NoneAssumption DEF PublishedFresh, TypeOK, PcInv
  <2> QED
    BY <1>4, <2>1 DEF PublishedFresh, TypeOK, SenderPC, Generation
<1>5. ASSUME NEW pc \in {"failed", "dropped"}, Fail(s, pc),
             confirms' \subseteq Claim, offers' \subseteq Claim
      PROVE TypeOK'
  BY <1>5 DEF Fail, TypeOK, SenderPC
<1>6. CASE PublishFailed(s) \/ WaitTimeout(s) \/ GateTimeout(s)
  BY <1>5, <1>6 DEF PublishFailed, WaitTimeout, GateTimeout, TypeOK
<1>7. ASSUME NEW c \in posted, IgnoreClaim(s, c) PROVE TypeOK'
  BY <1>7 DEF IgnoreClaim, Delivers, TypeOK
<1>8. ASSUME NEW c \in posted, SpendElement(s, c) PROVE TypeOK'
  <2>1. PICK g \in gens[s] : Routes(g, c) /\ gens' = [gens EXCEPT ![s] = (@ \ {g}) \cup {Consumed(g)}]
    BY <1>8 DEF SpendElement
  <2>2. g \in Generation /\ g.budget > 0
    BY <2>1 DEF Routes, TypeOK
  <2>3. Consumed(g) \in Generation
    <3>1. g.budget \in Nat /\ g.budget - 1 \in Nat
      BY <2>2 DEF Generation
    <3> QED
      BY <2>2, <3>1 DEF Consumed, Generation
  <2>4. c \in Claim /\ c.target \in Element
    BY DEF TypeOK, Claim
  <2> QED
    BY <1>8, <2>1, <2>3, <2>4 DEF SpendElement, Delivers, TypeOK, SenderPC
<1>9. CASE LockToReceiver(s)
  BY <1>9 DEF LockToReceiver, TypeOK, SenderPC
<1>10. ASSUME NEW lands \in BOOLEAN, ReplaceElement(s, lands) PROVE TypeOK'
  <2>1. PICK g \in gens[s] :
          /\ gens' = [gens EXCEPT ![s] = (@ \ {g}) \cup {Restocked(g, NewElement(s, g.pin, g.bucket))}]
          /\ board' = Store(lands, board, NewElement(s, g.pin, g.bucket))
    BY <1>10 DEF ReplaceElement
  <2>2. g \in Generation
    BY DEF TypeOK
  <2>3. NewElement(s, g.pin, g.bucket) \in Element
    BY <2>2, ElementType DEF Generation
  <2>4. Restocked(g, NewElement(s, g.pin, g.bucket)) \in Generation
    BY <2>2, <2>3 DEF Restocked, Generation
  <2>5. board' \subseteq Element
    BY <2>1, <2>3 DEF Store, TypeOK
  <2> QED
    BY <1>10, <2>1, <2>4, <2>5 DEF ReplaceElement, TypeOK, SenderPC
<1>11. CASE LeaveStalled(s) \/ ReplacementDone(s)
  BY <1>11 DEF LeaveStalled, ReplacementDone, TypeOK, SenderPC
<1>12. ASSUME spc[s] \in AfterLock PROVE locked[s] \in Claim
  BY <1>12 DEF PcInv, TypeOK
<1>13. CASE ConfirmPublished(s) \/ PublishOffer(s)
  BY <1>12, <1>13 DEF ConfirmPublished, PublishOffer, Advance, AfterLock, TypeOK, SenderPC
<1>14. ASSUME NEW r \in Receivers, EnterCode(s, r) PROVE TypeOK'
  BY <1>14 DEF EnterCode, Advance, TypeOK, SenderPC
<1>15. ASSUME NEW lands \in BOOLEAN, ConfirmFailed(s, lands) \/ OfferFailed(s, lands) PROVE TypeOK'
  BY <1>5, <1>12, <1>15 DEF ConfirmFailed, OfferFailed, Store, AfterLock, TypeOK
<1> QED
  BY <1>1, <1>2, <1>3, <1>4, <1>6, <1>7, <1>8, <1>9, <1>10, <1>11, <1>13, <1>14, <1>15
  DEF SenderNext, Publishes, TakesClaim, FinishesClaim

(* What build_claim makes of an element is a claim. *)
LEMMA ClaimType ==
  ASSUME TypeOK, NEW r \in Receivers, rpin[r] # None, NEW e \in Element
  PROVE  ClaimOf(r, e) \in Claim
  BY DEF TypeOK, ClaimOf, Claim

(* What the relays return are elements. *)
LEMMA FoundType ==
  ASSUME TypeOK, NEW r \in Receivers, NEW F \in Fetched(r)
  PROVE  F \subseteq board /\ F \subseteq Element
  BY DEF Fetched, Found, TypeOK

(* Claims made at once on the elements of a set, and the ones of them that
   reach a relay. *)
LEMMA ClaimsType ==
  ASSUME TypeOK, FiniteInv, NEW r \in Receivers, rpin[r] # None, NEW F \in Fetched(r),
         NEW C \in SUBSET F
  PROVE  /\ {ClaimOf(r, e) : e \in C} \subseteq Claim
         /\ IsFiniteSet(C) /\ Cardinality(C) \in Nat
<1>1. C \subseteq board /\ C \subseteq Element
  BY FoundType
<1>2. IsFiniteSet(C)
  BY <1>1, FS_Subset DEF FiniteInv
<1> QED
  BY <1>1, <1>2, ClaimType, FS_CardinalityType

(* Every step of a receiver preserves the type invariant. *)
LEMMA ReceiverTypeStep ==
  ASSUME TypeOK, PcInv, FiniteInv, NEW r \in Receivers, ReceiverNext(r) PROVE TypeOK'
<1> USE DEF relayVars, senderVars
<1>1. ASSUME NEW p \in Pins, TypePin(r, p) PROVE TypeOK'
  BY <1>1 DEF TypePin, TypeOK, ReceiverPC
<1>2. CASE ClaimCandidates(r)
  <2>1. PICK F \in Fetched(r) : \E C \in (SUBSET F) \ {{}} :
          /\ claims' = [claims EXCEPT ![r] = {ClaimOf(r, e) : e \in C}]
          /\ attempts' = [attempts EXCEPT ![r] = Cardinality(C)]
          /\ \E P \in (SUBSET C) \ {{}} : posted' = posted \cup {ClaimOf(r, e) : e \in P}
    BY <1>2 DEF ClaimCandidates
  <2>2. PICK C \in SUBSET F :
          /\ claims' = [claims EXCEPT ![r] = {ClaimOf(r, e) : e \in C}]
          /\ attempts' = [attempts EXCEPT ![r] = Cardinality(C)]
          /\ \E P \in SUBSET C : posted' = posted \cup {ClaimOf(r, e) : e \in P}
    BY <2>1
  <2>3. rpin[r] # None
    BY <1>2 DEF ClaimCandidates, PcInv
  <2>4. {ClaimOf(r, e) : e \in C} \subseteq Claim /\ Cardinality(C) \in Nat
    BY <2>3, ClaimsType
  <2>5. posted' \subseteq Claim
    BY <2>2, <2>4 DEF TypeOK
  <2> QED
    BY <1>2, <2>2, <2>4, <2>5 DEF ClaimCandidates, TypeOK, ReceiverPC
<1>3. CASE ClaimsRefused(r)
  <2>1. PICK F \in Fetched(r) : \E C \in SUBSET F : \E P \in SUBSET C :
          posted' = posted \cup {ClaimOf(r, e) : e \in P}
    BY <1>3 DEF ClaimsRefused
  <2>2. PICK C \in SUBSET F : \E P \in SUBSET C : posted' = posted \cup {ClaimOf(r, e) : e \in P}
    BY <2>1
  <2>3. rpin[r] # None
    BY <1>3 DEF ClaimsRefused, PcInv
  <2>4. {ClaimOf(r, e) : e \in C} \subseteq Claim
    BY <2>2, <2>3, ClaimsType
  <2>5. posted' \subseteq Claim
    BY <2>2, <2>4 DEF TypeOK
  <2> QED
    BY <1>3, <2>5 DEF ClaimsRefused, TypeOK, ReceiverPC
<1>4. ASSUME NEW e \in board, NEW lands \in BOOLEAN, Reclaim(r, e, lands) PROVE TypeOK'
  <2>1. rpin[r] # None
    BY <1>4 DEF Reclaim, PcInv
  <2>2. ClaimOf(r, e) \in Claim
    BY <2>1, ClaimType DEF TypeOK
  <2>3. posted' \subseteq Claim
    BY <1>4, <2>2 DEF Reclaim, Store, TypeOK
  <2> QED
    BY <1>4, <2>2, <2>3 DEF Reclaim, TypeOK
<1>5. ASSUME NEW c \in claims[r], ReceiveConfirm(r, c) PROVE TypeOK'
  BY <1>5 DEF ReceiveConfirm, TypeOK, ReceiverPC
<1>6. CASE \/ NothingFound(r) \/ ConfirmTimeout(r) \/ AcceptFile(r)
           \/ DeclineFile(r) \/ ReceiveOffer(r) \/ OfferTimeout(r)
  BY <1>6 DEF NothingFound, ConfirmTimeout, AcceptFile, DeclineFile, ReceiveOffer,
              OfferTimeout, Move, TypeOK, ReceiverPC
<1> QED
  BY <1>1, <1>2, <1>3, <1>4, <1>5, <1>6 DEF ReceiverNext, Reclaims

(* The three ways to mint a PIN, seen together. *)
LEMMA MintCases ==
  ASSUME NEW s \in Senders, Publishes(s)
  PROVE  \E p \in Pins, lands \in BOOLEAN :
           /\ MintPin(s, p, lands)
           /\ spc[s] \in {"idle", "waiting"}
           /\ \/ UNCHANGED <<gens, retired>>
              \/ /\ gens' = [gens EXCEPT ![s] = {}]
                 /\ retired' = [retired EXCEPT ![s] = shown[s]]
  BY DEF Publishes, FirstPin, RotatePin, RefreshPin

(* Every way a sender ends with an error. *)
LEMMA FailCases ==
  ASSUME TypeOK, NEW s \in Senders,
         \/ PublishFailed(s) \/ WaitTimeout(s) \/ GateTimeout(s)
         \/ \E lands \in BOOLEAN : ConfirmFailed(s, lands) \/ OfferFailed(s, lands)
  PROVE  \/ /\ Fail(s, "failed")
            /\ spc[s] \in {"publishing", "waiting", "confirming", "gate"}
            /\ confirms \subseteq confirms' /\ confirms' \subseteq confirms \cup {locked[s]}
            /\ confirms' # confirms => spc[s] = "confirming"
            /\ UNCHANGED offers
         \/ /\ Fail(s, "dropped")
            /\ spc[s] = "offering"
            /\ offers \subseteq offers' /\ offers' \subseteq offers \cup {locked[s]}
            /\ UNCHANGED confirms
  BY DEF PublishFailed, WaitTimeout, GateTimeout, ConfirmFailed, OfferFailed, Store

(* A sender's position agrees with its draft, its claim in hand and its lock,
   before and after each of its steps. *)
LEMMA SenderPcStep ==
  ASSUME TypeOK, TypeOK', PcInv, NEW s \in Senders, SenderNext(s) PROVE PcInv'
<1> USE DEF relayVars, receiverVars, PcInv, BeforeLock, AfterLock, HasSession
<1>1. CASE Publishes(s)
  <2>1. PICK p \in Pins, lands \in BOOLEAN :
          MintPin(s, p, lands) /\ spc[s] \in {"idle", "waiting"}
    BY <1>1, MintCases
  <2>2. draft'[s] # None
    BY <2>1, MintType, NoneAssumption
  <2> QED
    BY <2>1, <2>2 DEF MintPin, TypeOK
<1>2. CASE PublishedFresh(s)
  BY <1>2 DEF PublishedFresh, TypeOK
<1>3. CASE \/ PublishFailed(s) \/ WaitTimeout(s) \/ GateTimeout(s)
           \/ \E lands \in BOOLEAN : ConfirmFailed(s, lands) \/ OfferFailed(s, lands)
  BY <1>3, FailCases DEF Fail, TypeOK
<1>4. CASE TakesClaim(s)
  <2>1. PICK c \in posted : IgnoreClaim(s, c) \/ SpendElement(s, c)
    BY <1>4 DEF TakesClaim
  <2>2. c # None
    BY NoneAssumption DEF TypeOK
  <2> QED
    BY <2>1, <2>2 DEF IgnoreClaim, SpendElement, Delivers, TypeOK
<1>5. CASE LockToReceiver(s)
  BY <1>5 DEF LockToReceiver, TypeOK
<1>6. ASSUME NEW lands \in BOOLEAN, ReplaceElement(s, lands) PROVE PcInv'
  BY <1>6 DEF ReplaceElement, Rejected, TypeOK
<1>7. CASE LeaveStalled(s) \/ ReplacementDone(s)
  BY <1>7 DEF LeaveStalled, ReplacementDone, Rejected, TypeOK
<1>8. CASE ConfirmPublished(s) \/ PublishOffer(s) \/ \E r \in Receivers : EnterCode(s, r)
  BY <1>8 DEF ConfirmPublished, PublishOffer, EnterCode, Advance, TypeOK
<1> QED
  BY <1>1, <1>2, <1>3, <1>4, <1>5, <1>6, <1>7, <1>8
  DEF SenderNext, FinishesClaim

(* A receiver's position agrees with its PIN and its session, before and after
   each of its steps. *)
LEMMA ReceiverPcStep ==
  ASSUME TypeOK, TypeOK', PcInv, NEW r \in Receivers, ReceiverNext(r) PROVE PcInv'
<1> USE DEF relayVars, senderVars, PcInv, HasSession
<1>1. ASSUME NEW p \in Pins, TypePin(r, p) PROVE PcInv'
  BY <1>1, NoneAssumption DEF TypePin, TypeOK
<1>2. CASE ClaimCandidates(r)
  BY <1>2 DEF ClaimCandidates, TypeOK
<1>3. CASE ClaimsRefused(r)
  BY <1>3 DEF ClaimsRefused, TypeOK
<1>4. ASSUME NEW e \in board, NEW lands \in BOOLEAN, Reclaim(r, e, lands) PROVE PcInv'
  BY <1>4 DEF Reclaim, TypeOK
<1>5. ASSUME NEW c \in claims[r], ReceiveConfirm(r, c) PROVE PcInv'
  <2>1. c # None
    BY NoneAssumption DEF TypeOK
  <2> QED
    BY <1>5, <2>1 DEF ReceiveConfirm, TypeOK
<1>6. CASE \/ NothingFound(r) \/ ConfirmTimeout(r) \/ AcceptFile(r)
           \/ DeclineFile(r) \/ ReceiveOffer(r) \/ OfferTimeout(r)
  BY <1>6 DEF NothingFound, ConfirmTimeout, AcceptFile, DeclineFile, ReceiveOffer,
              OfferTimeout, Move, TypeOK
<1> QED
  BY <1>1, <1>2, <1>3, <1>4, <1>5, <1>6 DEF ReceiverNext, Reclaims

-----------------------------------------------------------------------------
(* The remaining parts, one lemma for the steps of a sender and one for those
   of a receiver. *)
LEMMA SenderFiniteStep ==
  ASSUME FiniteInv, NEW s \in Senders, SenderNext(s) PROVE FiniteInv'
<1> USE DEF relayVars, FiniteInv
<1>1. ASSUME NEW lands, NEW e, board' = Store(lands, board, e) PROVE FiniteInv'
  BY <1>1, FS_AddElement DEF Store
<1>2. CASE Publishes(s)
  BY <1>1, <1>2, MintCases DEF MintPin
<1>3. ASSUME NEW lands \in BOOLEAN, ReplaceElement(s, lands) PROVE FiniteInv'
  BY <1>1, <1>3 DEF ReplaceElement
<1>4. CASE \/ PublishedFresh(s) \/ PublishFailed(s) \/ WaitTimeout(s)
           \/ TakesClaim(s) \/ LockToReceiver(s) \/ LeaveStalled(s)
           \/ ReplacementDone(s) \/ ConfirmPublished(s) \/ GateTimeout(s) \/ PublishOffer(s)
           \/ \E lands \in BOOLEAN : ConfirmFailed(s, lands) \/ OfferFailed(s, lands)
           \/ \E r \in Receivers : EnterCode(s, r)
  BY <1>4 DEF PublishedFresh, PublishFailed, WaitTimeout, TakesClaim, IgnoreClaim, SpendElement,
     LockToReceiver, LeaveStalled, ReplacementDone, ConfirmPublished, GateTimeout, PublishOffer,
     ConfirmFailed, OfferFailed, EnterCode, Advance, Fail
<1> QED
  BY <1>2, <1>3, <1>4 DEF SenderNext, FinishesClaim

(* What a sender step does to the generations it retains: it adds the one it
   was publishing, drops some, or swaps one for another of the same PIN and
   bucket. *)
LEMMA GenerationStep ==
  ASSUME TypeOK, PcInv, NEW s \in Senders, SenderNext(s)
  PROVE  /\ \A t \in Senders \ {s} : gens'[t] = gens[t]
         /\ \/ gens'[s] \subseteq gens[s]
            \/ /\ PublishedFresh(s)
               /\ draft[s] # None
               /\ gens'[s] = {g \in gens[s] \cup {draft[s]} : IsActive(g.bucket)}
            \/ /\ spc[s] \in {"waiting", "verifying"} /\ spc'[s] \in {"verifying", "republishing"}
               /\ \E g \in gens[s] : \E h :
                    /\ h.pin = g.pin /\ h.bucket = g.bucket
                    /\ gens'[s] = (gens[s] \ {g}) \cup {h}
<1>1. CASE Publishes(s)
  BY <1>1, MintCases DEF TypeOK
<1>2. CASE PublishedFresh(s)
  BY <1>2 DEF PublishedFresh, PcInv, TypeOK
<1>3. CASE \/ PublishFailed(s) \/ WaitTimeout(s) \/ GateTimeout(s)
           \/ \E lands \in BOOLEAN : ConfirmFailed(s, lands) \/ OfferFailed(s, lands)
  BY <1>3, FailCases DEF Fail, TypeOK
<1>4. ASSUME NEW c \in posted, SpendElement(s, c)
      PROVE  /\ \A t \in Senders \ {s} : gens'[t] = gens[t]
             /\ spc[s] = "waiting" /\ spc'[s] = "verifying"
             /\ \E g \in gens[s] : \E h :
                  /\ h.pin = g.pin /\ h.bucket = g.bucket
                  /\ gens'[s] = (gens[s] \ {g}) \cup {h}
  <2>1. PICK g \in gens[s] : gens' = [gens EXCEPT ![s] = (@ \ {g}) \cup {Consumed(g)}]
    BY <1>4 DEF SpendElement
  <2>2. Consumed(g).pin = g.pin /\ Consumed(g).bucket = g.bucket
    BY DEF Consumed
  <2> QED
    BY <1>4, <2>1, <2>2 DEF SpendElement, Delivers, TypeOK
<1>5. ASSUME NEW lands \in BOOLEAN, ReplaceElement(s, lands)
      PROVE  /\ \A t \in Senders \ {s} : gens'[t] = gens[t]
             /\ spc[s] = "verifying" /\ spc'[s] = "republishing"
             /\ \E g \in gens[s] : \E h :
                  /\ h.pin = g.pin /\ h.bucket = g.bucket
                  /\ gens'[s] = (gens[s] \ {g}) \cup {h}
  <2> DEFINE h(g) == Restocked(g, NewElement(s, g.pin, g.bucket))
  <2>1. PICK g \in gens[s] : gens' = [gens EXCEPT ![s] = (@ \ {g}) \cup {h(g)}] /\ Rejected(s, g)
    BY <1>5 DEF ReplaceElement
  <2>2. h(g).pin = g.pin /\ h(g).bucket = g.bucket
    BY DEF Restocked
  <2> HIDE DEF h
  <2> QED
    BY <1>5, <2>1, <2>2 DEF ReplaceElement, Rejected, TypeOK
<1>6. CASE LockToReceiver(s)
  BY <1>6 DEF LockToReceiver, TypeOK
<1>7. CASE \/ \E c \in posted : IgnoreClaim(s, c)
           \/ LeaveStalled(s) \/ ReplacementDone(s) \/ ConfirmPublished(s) \/ PublishOffer(s)
           \/ \E r \in Receivers : EnterCode(s, r)
  BY <1>7 DEF IgnoreClaim, LeaveStalled, ReplacementDone, ConfirmPublished, PublishOffer, EnterCode, Advance
<1> QED
  BY <1>1, <1>2, <1>3, <1>4, <1>5, <1>6, <1>7 DEF SenderNext, TakesClaim, FinishesClaim

(* What a sender step does to the generation being published. *)
LEMMA DraftStep ==
  ASSUME TypeOK, NEW s \in Senders, SenderNext(s)
  PROVE  /\ UNCHANGED now
         /\ \A t \in Senders \ {s} : draft'[t] = draft[t]
         /\ draft'[s] \in {None, draft[s]} \/ draft'[s].bucket = now
<1>1. CASE Publishes(s)
  <2>1. PICK p \in Pins, lands \in BOOLEAN : MintPin(s, p, lands)
    BY <1>1, MintCases
  <2>2. draft'[s] = [pin |-> p, bucket |-> now, run |-> NewElement(s, p, now), budget |-> VerifyLimit]
    BY <2>1 DEF MintPin, TypeOK
  <2> QED
    BY <2>1, <2>2 DEF MintPin, TypeOK
<1>2. CASE \/ PublishFailed(s) \/ WaitTimeout(s) \/ GateTimeout(s)
           \/ \E lands \in BOOLEAN : ConfirmFailed(s, lands) \/ OfferFailed(s, lands)
  BY <1>2, FailCases DEF Fail, TypeOK
<1>3. CASE \/ PublishedFresh(s) \/ TakesClaim(s) \/ FinishesClaim(s)
           \/ ReplacementDone(s) \/ ConfirmPublished(s) \/ PublishOffer(s)
           \/ \E r \in Receivers : EnterCode(s, r)
  BY <1>3 DEF PublishedFresh, TakesClaim, IgnoreClaim, SpendElement, FinishesClaim, LockToReceiver,
     ReplaceElement, LeaveStalled, ReplacementDone, ConfirmPublished, PublishOffer, EnterCode,
     Advance, TypeOK
<1> QED
  BY <1>1, <1>2, <1>3 DEF SenderNext

(* No sender publishes or retains anything from the future. *)
LEMMA SenderClockStep ==
  ASSUME TypeOK, PcInv, ClockInv, NEW s \in Senders, SenderNext(s) PROVE ClockInv'
<1>1. now' = now /\ now \in Nat
  BY DraftStep DEF TypeOK
<1>2. ASSUME NEW t \in Senders, NEW g \in gens'[t] PROVE g.bucket <= now
  BY <1>2, GenerationStep DEF ClockInv
<1>3. ASSUME NEW t \in Senders, draft'[t] # None PROVE draft'[t].bucket <= now
  BY <1>1, <1>3, DraftStep DEF ClockInv
<1> QED
  BY <1>1, <1>2, <1>3 DEF ClockInv

(* What a sender confirms, offers or works on was claimed by a receiver under
   the PIN it typed. *)
LEMMA SenderClaimStep ==
  ASSUME TypeOK, TypeOK', PcInv, PcInv', ClaimInv, NEW s \in Senders, SenderNext(s) PROVE ClaimInv'
<1> USE DEF relayVars, receiverVars, ClaimInv
<1>1. CASE Publishes(s)
  BY <1>1, MintCases DEF MintPin
<1>2. CASE TakesClaim(s)
  BY <1>2, NoneAssumption DEF TakesClaim, IgnoreClaim, SpendElement, Delivers, TypeOK
<1>3. CASE LockToReceiver(s)
  BY <1>3 DEF LockToReceiver, TypeOK, PcInv
<1>4. CASE LeaveStalled(s) \/ \E lands \in BOOLEAN : ReplaceElement(s, lands)
  BY <1>4 DEF LeaveStalled, ReplaceElement, TypeOK
<1>5. CASE \/ PublishedFresh(s) \/ PublishFailed(s) \/ WaitTimeout(s)
           \/ ReplacementDone(s) \/ ConfirmPublished(s) \/ GateTimeout(s) \/ PublishOffer(s)
           \/ \E lands \in BOOLEAN : ConfirmFailed(s, lands) \/ OfferFailed(s, lands)
           \/ \E r \in Receivers : EnterCode(s, r)
  BY <1>5 DEF PublishedFresh, PublishFailed, WaitTimeout,
     ReplacementDone, ConfirmPublished, GateTimeout, PublishOffer,
     ConfirmFailed, OfferFailed, EnterCode, Advance, Fail
<1> QED
  BY <1>1, <1>2, <1>3, <1>4, <1>5 DEF SenderNext, FinishesClaim

(* What a receiver step leaves alone, and what it does to the claims: they are
   made by that receiver, under the PIN it typed. *)
LEMMA ReceiverFrame ==
  ASSUME NEW r \in Receivers, ReceiverNext(r)
  PROVE  UNCHANGED <<now, board, confirms, offers, senderVars>>
  BY DEF ReceiverNext, TypePin, ClaimCandidates, NothingFound, ClaimsRefused, Reclaims, Reclaim,
     ReceiveConfirm, ConfirmTimeout, AcceptFile, DeclineFile, ReceiveOffer, OfferTimeout, Move,
     relayVars

(* The claims of a receiver stay its own and stay posted under its PIN. *)
LEMMA ReceiverClaimStep ==
  ASSUME TypeOK, PcInv, ClaimInv, NEW r \in Receivers, ReceiverNext(r) PROVE ClaimInv'
<1> USE DEF ClaimInv, senderVars
<1>1. UNCHANGED <<handling, locked>>
  BY ReceiverFrame
<1>2. ASSUME NEW p \in Pins, TypePin(r, p) PROVE ClaimInv'
  <2>1. \A c \in posted : c.by # r
    BY <1>2, NoneAssumption DEF TypePin, PcInv, TypeOK, Claim
  <2> QED
    BY <1>1, <1>2, <2>1 DEF TypePin, relayVars, TypeOK
<1>3. CASE ClaimCandidates(r)
  <2>1. PICK C, P :
          /\ claims' = [claims EXCEPT ![r] = {ClaimOf(r, e) : e \in C}]
          /\ posted' = posted \cup {ClaimOf(r, e) : e \in P}
          /\ UNCHANGED rpin
    BY <1>3 DEF ClaimCandidates
  <2> QED
    BY <1>1, <2>1 DEF ClaimOf, TypeOK
<1>4. CASE ClaimsRefused(r)
  <2>1. PICK P : posted' = posted \cup {ClaimOf(r, e) : e \in P}
    BY <1>4 DEF ClaimsRefused
  <2> QED
    BY <1>1, <1>4, <2>1 DEF ClaimsRefused, ClaimOf
<1>5. ASSUME NEW e \in board, NEW lands \in BOOLEAN, Reclaim(r, e, lands) PROVE ClaimInv'
  BY <1>1, <1>5 DEF Reclaim, Store, ClaimOf, TypeOK
<1>6. ASSUME NEW c \in claims[r], ReceiveConfirm(r, c) PROVE ClaimInv'
  BY <1>1, <1>6 DEF ReceiveConfirm, relayVars
<1>7. CASE \/ NothingFound(r) \/ ConfirmTimeout(r) \/ AcceptFile(r)
           \/ DeclineFile(r) \/ ReceiveOffer(r) \/ OfferTimeout(r)
  BY <1>1, <1>7 DEF NothingFound, ConfirmTimeout, AcceptFile, DeclineFile, ReceiveOffer,
              OfferTimeout, Move, relayVars
<1> QED
  BY <1>2, <1>3, <1>4, <1>5, <1>6, <1>7 DEF ReceiverNext, Reclaims

(* A generation's PIN is known, displayed and, unless it was retired, still
   retained: what a refresh drops never comes back. *)
LEMMA SenderPinStep ==
  ASSUME TypeOK, TypeOK', PcInv, PcInv', ClaimInv, PinInv, RunInv, NEW s \in Senders, SenderNext(s)
  PROVE  PinInv'
<1> USE DEF PinInv
<1>1. CASE Publishes(s)
  <2>1. PICK p \in Pins, lands \in BOOLEAN :
           /\ MintPin(s, p, lands)
           /\ spc[s] \in {"idle", "waiting"}
           /\ \/ UNCHANGED <<gens, retired>>
              \/ /\ gens' = [gens EXCEPT ![s] = {}]
                 /\ retired' = [retired EXCEPT ![s] = shown[s]]
    BY <1>1, MintCases
  <2>2. /\ draft'[s].pin = p /\ p \notin drawn /\ drawn' = drawn \cup {p}
        /\ \A t \in Senders \ {s} : draft'[t] = draft[t]
        /\ UNCHANGED <<shown, locked>>
    BY <2>1, MintType DEF MintPin
  <2>3. locked[s] = None
    BY <2>1 DEF PcInv, BeforeLock
  <2>4. /\ retired'[s] \in {retired[s], shown[s]}
        /\ (gens'[s] = gens[s] /\ retired'[s] = retired[s]) \/ gens'[s] = {}
        /\ \A t \in Senders \ {s} : retired'[t] = retired[t] /\ gens'[t] = gens[t]
    BY <2>1 DEF TypeOK
  <2>5. ASSUME NEW t \in Senders
        PROVE  /\ shown'[t] \subseteq drawn'
               /\ retired'[t] \subseteq shown'[t]
               /\ \A g \in gens'[t] : g.pin \in shown'[t] \ retired'[t]
               /\ locked'[t] # None => locked'[t].pin \notin retired'[t]
    BY <2>2, <2>3, <2>4
  <2>6. ASSUME NEW t \in Senders, draft'[t] # None
        PROVE  draft'[t].pin \in drawn' /\ \A u \in Senders : draft'[t].pin \notin shown'[u]
    BY <2>2, <2>6
  <2>7. ASSUME NEW t \in Senders, NEW u \in Senders,
               draft'[t] # None, draft'[u] # None, draft'[t].pin = draft'[u].pin
        PROVE  t = u
    BY <2>2, <2>7
  <2> QED
    BY <2>5, <2>6, <2>7
<1>2. CASE PublishedFresh(s)
  <2>1. draft[s] # None /\ locked[s] = None
    BY <1>2 DEF PublishedFresh, PcInv, BeforeLock
  <2>2. shown'[s] = shown[s] \cup {draft[s].pin} /\ \A t \in Senders \ {s} : shown'[t] = shown[t]
    BY <1>2 DEF PublishedFresh, TypeOK
  <2> QED
    BY <1>2, <2>1, <2>2 DEF PublishedFresh, TypeOK
<1>3. CASE \/ PublishFailed(s) \/ WaitTimeout(s) \/ GateTimeout(s)
           \/ \E lands \in BOOLEAN : ConfirmFailed(s, lands) \/ OfferFailed(s, lands)
  <2>1. PICK pc : Fail(s, pc)
    BY <1>3, FailCases
  <2>2. /\ gens'[s] = {} /\ \A t \in Senders \ {s} : gens'[t] = gens[t]
        /\ draft'[s] = None /\ \A t \in Senders \ {s} : draft'[t] = draft[t]
        /\ UNCHANGED <<drawn, shown, retired, locked>>
    BY <2>1 DEF Fail, TypeOK
  <2> QED
    BY <2>2
<1>4. ASSUME NEW c \in posted, IgnoreClaim(s, c) PROVE PinInv'
  BY <1>4 DEF IgnoreClaim
<1>5. ASSUME NEW c \in posted, SpendElement(s, c) PROVE PinInv'
  BY <1>5 DEF SpendElement, Consumed, TypeOK
<1>6. CASE LockToReceiver(s)
  <2>1. PICK g \in gens[s] : Verifies(g, handling[s])
    BY <1>6 DEF LockToReceiver
  <2>2. handling[s].pin = g.pin /\ g.pin \notin retired[s]
    BY <2>1 DEF Verifies
  <2> QED
    BY <1>6, <2>2 DEF LockToReceiver, TypeOK
<1>7. ASSUME NEW lands \in BOOLEAN, ReplaceElement(s, lands) PROVE PinInv'
  <2>1. PICK g, h :
          /\ g \in gens[s]
          /\ gens' = [gens EXCEPT ![s] = (@ \ {g}) \cup {h}]
          /\ h = Restocked(g, NewElement(s, g.pin, g.bucket))
    BY <1>7 DEF ReplaceElement
  <2>3. h.pin = g.pin
    BY <2>1 DEF Restocked
  <2>4. /\ \A t \in Senders \ {s} : gens'[t] = gens[t]
        /\ \A f \in gens'[s] : f \in gens[s] \/ f.pin = g.pin
    BY <2>1, <2>3 DEF TypeOK
  <2>5. UNCHANGED <<drawn, shown, retired, locked, draft>>
    BY <1>7 DEF ReplaceElement
  <2>6. g.pin \in shown[s] \ retired[s]
    BY <2>1
  <2> QED
    BY <2>4, <2>5, <2>6
<1>8. CASE \/ LeaveStalled(s) \/ ReplacementDone(s) \/ ConfirmPublished(s) \/ PublishOffer(s)
           \/ \E r \in Receivers : EnterCode(s, r)
  BY <1>8 DEF LeaveStalled, ReplacementDone, ConfirmPublished, PublishOffer, EnterCode, Advance
<1> QED
  BY <1>1, <1>2, <1>3, <1>4, <1>5, <1>6, <1>7, <1>8 DEF SenderNext, TakesClaim, FinishesClaim

(* A run on offer is the sender's own, numbered, unspent and not offered twice. *)
LEMMA SenderRunStep ==
  ASSUME TypeOK, TypeOK', PcInv, PinInv, RunInv, NEW s \in Senders, SenderNext(s) PROVE RunInv'
<1> USE DEF RunInv
<1>1. CASE Publishes(s)
  <2>1. PICK p \in Pins, lands \in BOOLEAN :
          /\ MintPin(s, p, lands)
          /\ \/ UNCHANGED gens
             \/ gens' = [gens EXCEPT ![s] = {}]
    BY <1>1, MintCases
  <2>2. /\ gens'[s] \subseteq gens[s]
        /\ \A t \in Senders \ {s} : gens'[t] = gens[t]
    BY <2>1 DEF TypeOK
  <2>3. /\ draft'[s].run \in Element
        /\ draft'[s].run.pin = draft'[s].pin
        /\ draft'[s].run.n = runs[s] + 1
        /\ \A t \in Senders \ {s} : draft'[t] = draft[t]
    <3>1. /\ draft'[s].pin = p /\ draft'[s].run = NewElement(s, p, now)
          /\ draft'[s].run \in Element
          /\ \A t \in Senders \ {s} : draft'[t] = draft[t]
      BY <2>1, MintType
    <3>2. NewElement(s, p, now).pin = p /\ NewElement(s, p, now).n = runs[s] + 1
      BY DEF NewElement
    <3> QED
      BY <3>1, <3>2
  <2>4. /\ runs'[s] = runs[s] + 1 /\ runs[s] \in Nat
        /\ \A t \in Senders \ {s} : runs'[t] = runs[t]
        /\ UNCHANGED spent
    BY <2>1 DEF MintPin, TypeOK
  <2>5. \A e \in spent[s] : e.n \in Nat /\ e.n <= runs'[s] /\ e.n # runs[s] + 1
    BY <2>4 DEF TypeOK, Element
  <2>6. \A g \in gens'[s] : g.run # None => g.run.n \in Nat /\ g.run.n <= runs'[s]
    BY <2>2, <2>4 DEF TypeOK, Generation, Element
  <2>7. draft'[s].run # None /\ draft'[s].run \notin spent[s]
    BY <2>3, <2>5, NoneAssumption
  <2> QED
    BY <2>2, <2>3, <2>4, <2>5, <2>6, <2>7
<1>2. CASE PublishedFresh(s)
  <2>1. draft[s] # None
    BY <1>2 DEF PublishedFresh, PcInv
  <2>2. /\ gens'[s] \subseteq gens[s] \cup {draft[s]}
        /\ \A t \in Senders \ {s} : gens'[t] = gens[t]
        /\ draft'[s] = None /\ \A t \in Senders \ {s} : draft'[t] = draft[t]
        /\ UNCHANGED <<runs, spent>>
    BY <1>2 DEF PublishedFresh, TypeOK
  <2>3. \A g \in gens[s] : g.pin # draft[s].pin
    BY <2>1 DEF PinInv
  <2> QED
    BY <2>1, <2>2, <2>3
<1>3. CASE \/ PublishFailed(s) \/ WaitTimeout(s) \/ GateTimeout(s)
           \/ \E lands \in BOOLEAN : ConfirmFailed(s, lands) \/ OfferFailed(s, lands)
  <2>1. PICK pc : Fail(s, pc)
    BY <1>3, FailCases
  <2>2. /\ gens'[s] = {} /\ \A t \in Senders \ {s} : gens'[t] = gens[t]
        /\ draft'[s] = None /\ \A t \in Senders \ {s} : draft'[t] = draft[t]
        /\ UNCHANGED <<runs, spent>>
    BY <2>1 DEF Fail, TypeOK
  <2> QED
    BY <2>2
<1>4. ASSUME NEW c \in posted, IgnoreClaim(s, c) PROVE RunInv'
  BY <1>4 DEF IgnoreClaim
<1>5. ASSUME NEW c \in posted, SpendElement(s, c) PROVE RunInv'
  <2>1. PICK g, h :
          /\ g \in gens[s]
          /\ Routes(g, c)
          /\ gens' = [gens EXCEPT ![s] = (@ \ {g}) \cup {h}]
          /\ h = Consumed(g)
    BY <1>5 DEF SpendElement
  <2>2. g \in gens[s] /\ h.pin = g.pin /\ h.run = None
    BY <2>1 DEF Consumed
  <2>3. g.run = c.target /\ g.run # None
    BY <2>1, NoneAssumption DEF Routes, TypeOK, Claim
  <2>4. /\ gens'[s] = (gens[s] \ {g}) \cup {h}
        /\ \A t \in Senders \ {s} : gens'[t] = gens[t]
    BY <2>1 DEF TypeOK
  <2>5. /\ spent'[s] = spent[s] \cup {c.target}
        /\ \A t \in Senders \ {s} : spent'[t] = spent[t]
        /\ UNCHANGED <<runs, draft>>
    BY <1>5 DEF SpendElement, TypeOK
  <2>6. \A f \in gens[s] \ {g} : f.run # None => f.run # c.target
    BY <2>2, <2>3
  <2>7. draft[s] = None
    BY <1>5 DEF SpendElement, Delivers, PcInv
  <2> QED
    BY <2>2, <2>3, <2>4, <2>5, <2>6, <2>7
<1>6. CASE LockToReceiver(s)
  <2>1. /\ gens'[s] = {} /\ \A t \in Senders \ {s} : gens'[t] = gens[t]
        /\ UNCHANGED <<draft, runs, spent>>
    BY <1>6 DEF LockToReceiver, TypeOK
  <2> QED
    BY <2>1
<1>7. ASSUME NEW lands \in BOOLEAN, ReplaceElement(s, lands) PROVE RunInv'
  <2>1. PICK g, e, h :
          /\ g \in gens[s]
          /\ e = NewElement(s, g.pin, g.bucket)
          /\ gens' = [gens EXCEPT ![s] = (@ \ {g}) \cup {h}]
          /\ h = Restocked(g, e)
    BY <1>7 DEF ReplaceElement
  <2>2. g \in gens[s] /\ h.pin = g.pin /\ h.run = e /\ e.pin = g.pin /\ e.n = runs[s] + 1
    BY <2>1 DEF Restocked, NewElement
  <2>3. /\ gens'[s] = (gens[s] \ {g}) \cup {h}
        /\ \A t \in Senders \ {s} : gens'[t] = gens[t]
    BY <2>1 DEF TypeOK
  <2>4. /\ runs'[s] = runs[s] + 1 /\ runs[s] \in Nat
        /\ \A t \in Senders \ {s} : runs'[t] = runs[t]
        /\ UNCHANGED <<spent, draft>>
    BY <1>7 DEF ReplaceElement, TypeOK
  <2>5. \A f \in spent[s] : f.n \in Nat /\ f.n <= runs'[s] /\ f.n # runs[s] + 1
    BY <2>4 DEF TypeOK, Element
  <2>6. \A f \in gens[s] : f.run # None => f.run.n \in Nat /\ f.run.n <= runs'[s]
    BY <2>4 DEF TypeOK, Generation, Element
  <2>7. draft[s] = None
    BY <1>7 DEF ReplaceElement, Rejected, PcInv
  <2> QED
    BY <2>2, <2>3, <2>4, <2>5, <2>6, <2>7
<1>8. CASE \/ LeaveStalled(s) \/ ReplacementDone(s) \/ ConfirmPublished(s) \/ PublishOffer(s)
           \/ \E r \in Receivers : EnterCode(s, r)
  BY <1>8 DEF LeaveStalled, ReplacementDone, ConfirmPublished, PublishOffer, EnterCode, Advance
<1> QED
  BY <1>1, <1>2, <1>3, <1>4, <1>5, <1>6, <1>7, <1>8 DEF SenderNext, TakesClaim, FinishesClaim

(* Confirms, offers and the code gate speak of the locked session only. *)
LEMMA SenderSessionStep ==
  ASSUME TypeOK, TypeOK', PcInv, PcInv', ClaimInv, SessionInv, NEW s \in Senders, SenderNext(s)
  PROVE  SessionInv'
<1> USE DEF SessionInv, receiverVars
<1>1. CASE Publishes(s)
  <2>1. PICK p \in Pins, lands \in BOOLEAN : MintPin(s, p, lands) /\ spc[s] \in {"idle", "waiting"}
    BY <1>1, MintCases
  <2> QED
    BY <2>1 DEF MintPin, TypeOK, AfterGate, Claim, Element
<1>2. CASE PublishedFresh(s)
  BY <1>2 DEF PublishedFresh, relayVars, TypeOK, AfterGate, Claim, Element
<1>3. CASE TakesClaim(s)
  <2>1. /\ spc[s] = "waiting"
        /\ \A t \in Senders \ {s} : spc'[t] = spc[t]
        /\ spc'[s] \in {"waiting", "verifying"}
        /\ UNCHANGED <<confirms, offers, locked, session, rpc>>
    BY <1>3 DEF TakesClaim, IgnoreClaim, SpendElement, Delivers, relayVars, TypeOK
  <2> QED
    BY <2>1 DEF TypeOK, AfterGate, Claim, Element
<1>4. CASE LockToReceiver(s)
  <2>1. locked[s] = None
    BY <1>4 DEF LockToReceiver, PcInv, BeforeLock
  <2>2. \A c \in confirms \cup offers : c.target.from # s
    BY <2>1, NoneAssumption DEF TypeOK
  <2> QED
    BY <1>4, <2>1, <2>2 DEF LockToReceiver, relayVars, TypeOK, AfterGate
<1>5. CASE (FinishesClaim(s) /\ ~ LockToReceiver(s)) \/ ReplacementDone(s)
  <2>1. /\ spc[s] \in {"verifying", "republishing"}
        /\ \A t \in Senders \ {s} : spc'[t] = spc[t]
        /\ spc'[s] \in {"waiting", "republishing"}
        /\ UNCHANGED <<confirms, offers, locked, session, rpc>>
    BY <1>5 DEF FinishesClaim, ReplaceElement, LeaveStalled, ReplacementDone, Rejected, relayVars, TypeOK
  <2> QED
    BY <2>1 DEF TypeOK, AfterGate, Claim, Element
<1>6. CASE \/ PublishFailed(s) \/ WaitTimeout(s) \/ GateTimeout(s)
           \/ \E lands \in BOOLEAN : ConfirmFailed(s, lands) \/ OfferFailed(s, lands)
  <2>1. CASE /\ Fail(s, "failed")
             /\ spc[s] \in {"publishing", "waiting", "confirming", "gate"}
             /\ confirms \subseteq confirms' /\ confirms' \subseteq confirms \cup {locked[s]}
             /\ confirms' # confirms => spc[s] = "confirming"
             /\ UNCHANGED offers
    <3>1. /\ \A t \in Senders \ {s} : spc'[t] = spc[t]
          /\ spc'[s] = "failed"
          /\ UNCHANGED <<locked, session, rpc>>
      BY <2>1 DEF Fail, TypeOK
    <3>2. \A c \in confirms' : locked[c.target.from] = c
      BY <2>1 DEF PcInv, AfterLock, ClaimInv
    <3>3. \A c \in offers : c.target.from # s
      BY <2>1 DEF TypeOK
    <3> QED
      BY <2>1, <3>1, <3>2, <3>3 DEF TypeOK, AfterGate, Claim, Element
  <2>2. CASE /\ Fail(s, "dropped")
             /\ spc[s] = "offering"
             /\ offers \subseteq offers' /\ offers' \subseteq offers \cup {locked[s]}
             /\ UNCHANGED confirms
    <3>1. /\ \A t \in Senders \ {s} : spc'[t] = spc[t]
          /\ spc'[s] = "dropped"
          /\ UNCHANGED <<locked, session, rpc>>
      BY <2>2 DEF Fail, TypeOK
    <3>2. locked[s] # None /\ locked[s].target.from = s
      BY <2>2 DEF PcInv, AfterLock, ClaimInv
    <3> QED
      BY <2>2, <3>1, <3>2 DEF TypeOK, AfterGate, Claim, Element
  <2> QED
    BY <1>6, <2>1, <2>2, FailCases
<1>7. CASE ConfirmPublished(s)
  BY <1>7 DEF ConfirmPublished, Advance, TypeOK, AfterGate, PcInv, AfterLock, ClaimInv
<1>8. CASE PublishOffer(s)
  BY <1>8 DEF PublishOffer, Advance, TypeOK, AfterGate, PcInv, AfterLock, ClaimInv
<1>9. ASSUME NEW r \in Receivers, EnterCode(s, r) PROVE SessionInv'
  <2>1. locked[s] # None /\ session[r] = locked[s] /\ locked[s].by = r
    BY <1>9 DEF EnterCode, Advance, PcInv, AfterLock
  <2> QED
    BY <1>9, <2>1 DEF EnterCode, Advance, TypeOK, AfterGate
<1> QED
  BY <1>1, <1>2, <1>3, <1>4, <1>5, <1>6, <1>7, <1>8, <1>9 DEF SenderNext, FinishesClaim

(* A receiver takes a session from a confirm of its sender and keeps it. *)
LEMMA ReceiverSessionStep ==
  ASSUME TypeOK, TypeOK', PcInv, ClaimInv, SessionInv, NEW r \in Receivers, ReceiverNext(r)
  PROVE  SessionInv'
<1> USE DEF SessionInv
<1>1. UNCHANGED <<confirms, offers, spc, locked>>
  BY ReceiverFrame DEF senderVars
<1>2. ASSUME NEW c \in claims[r], ReceiveConfirm(r, c) PROVE SessionInv'
  <2>1. c \in confirms /\ c.by = r /\ c # None
    BY <1>2, NoneAssumption DEF ReceiveConfirm, MatchesConfirm, ClaimInv, TypeOK
  <2>2. session[r] = None
    BY <1>2 DEF ReceiveConfirm, PcInv
  <2>3. /\ session'[r] = c /\ \A q \in Receivers \ {r} : session'[q] = session[q]
        /\ rpc'[r] = "confirmed" /\ \A q \in Receivers \ {r} : rpc'[q] = rpc[q]
    BY <1>2 DEF ReceiveConfirm, TypeOK
  <2>4. \A s \in Senders : spc[s] \in AfterGate => locked[s] \in Claim
    BY DEF AfterGate, AfterLock, PcInv, TypeOK
  <2>5. \A s \in Senders : spc[s] \in AfterGate => locked[s].by # r
    BY <2>2, <2>4, NoneAssumption
  <2> QED
    BY <1>1, <2>1, <2>3, <2>4, <2>5 DEF Claim
<1>3. CASE ReceiveOffer(r)
  BY <1>1, <1>3 DEF ReceiveOffer, Move, TypeOK
<1>4. CASE UNCHANGED session /\ (rpc'[r] # "answering" /\ \A q \in Receivers \ {r} : rpc'[q] = rpc[q])
  BY <1>1, <1>4
<1>5. ASSUME NEW p \in Pins, TypePin(r, p) PROVE SessionInv'
  BY <1>4, <1>5 DEF TypePin, TypeOK
<1>6. CASE ClaimCandidates(r) \/ ClaimsRefused(r) \/ NothingFound(r)
  BY <1>4, <1>6 DEF ClaimCandidates, ClaimsRefused, NothingFound, TypeOK
<1>7. ASSUME NEW e \in board, NEW lands \in BOOLEAN, Reclaim(r, e, lands) PROVE SessionInv'
  BY <1>4, <1>7 DEF Reclaim, TypeOK
<1>8. CASE ConfirmTimeout(r) \/ AcceptFile(r) \/ DeclineFile(r) \/ OfferTimeout(r)
  BY <1>4, <1>8 DEF ConfirmTimeout, AcceptFile, DeclineFile, OfferTimeout, Move, TypeOK
<1> QED
  BY <1>2, <1>3, <1>5, <1>6, <1>7, <1>8 DEF ReceiverNext, Reclaims

-----------------------------------------------------------------------------
(* The inductive invariant holds initially. *)
LEMMA InitInv == Init => IInv
<1> SUFFICES ASSUME Init PROVE IInv
  OBVIOUS
<1> USE DEF Init
<1>1. TypeOK
  BY DEF TypeOK, SenderPC, ReceiverPC
<1>2. PcInv
  BY DEF PcInv, AfterLock, HasSession
<1>3. FiniteInv
  BY FS_EmptySet DEF FiniteInv
<1>4. ClockInv /\ ClaimInv /\ PinInv /\ RunInv
  BY DEF ClockInv, ClaimInv, PinInv, RunInv
<1>5. SessionInv
  BY DEF SessionInv, AfterGate
<1> QED
  BY <1>1, <1>2, <1>3, <1>4, <1>5 DEF IInv

(* Every step preserves the inductive invariant, part by part. *)
LEMMA InvStep == IInv /\ [Next]_vars => IInv'
<1> SUFFICES ASSUME IInv, [Next]_vars PROVE IInv'
  OBVIOUS
<1>1. ASSUME NEW s \in Senders, SenderNext(s) PROVE IInv'
  <2>1. TypeOK'
    BY <1>1, SenderTypeStep DEF IInv
  <2>2. PcInv'
    BY <1>1, <2>1, SenderPcStep DEF IInv
  <2>3. FiniteInv' /\ ClockInv' /\ ClaimInv'
    BY <1>1, <2>1, <2>2, SenderFiniteStep, SenderClockStep, SenderClaimStep DEF IInv
  <2>4. PinInv' /\ RunInv' /\ SessionInv'
    BY <1>1, <2>1, <2>2, SenderPinStep, SenderRunStep, SenderSessionStep DEF IInv
  <2> QED
    BY <2>1, <2>2, <2>3, <2>4 DEF IInv
<1>2. ASSUME NEW r \in Receivers, ReceiverNext(r) PROVE IInv'
  <2>1. TypeOK'
    BY <1>2, ReceiverTypeStep DEF IInv
  <2>2. PcInv' /\ ClaimInv' /\ SessionInv'
    BY <1>2, <2>1, ReceiverPcStep, ReceiverClaimStep, ReceiverSessionStep DEF IInv
  <2>3. FiniteInv' /\ ClockInv' /\ PinInv' /\ RunInv'
    BY <1>2, ReceiverFrame DEF IInv, FiniteInv, ClockInv, PinInv, RunInv, senderVars
  <2> QED
    BY <2>1, <2>2, <2>3 DEF IInv
<1>3. CASE Tick \/ UNCHANGED vars
  <2>1. UNCHANGED <<relayVars, senderVars, receiverVars>>
    BY <1>3 DEF Tick, vars
  <2>2. now' \in Nat
    BY <1>3 DEF Tick, vars, IInv, TypeOK
  <2> USE <2>1 DEF relayVars, senderVars, receiverVars
  <2>3. TypeOK'
    BY <2>2 DEF IInv, TypeOK
  <2>4. PcInv' /\ FiniteInv' /\ ClaimInv' /\ PinInv' /\ RunInv' /\ SessionInv'
    BY DEF IInv, PcInv, FiniteInv, ClaimInv, PinInv, RunInv, SessionInv
  <2>5. ClockInv'
    <3>1. now \in Nat /\ now <= now'
      BY <1>3 DEF Tick, vars, IInv, TypeOK
    <3>2. ASSUME NEW s \in Senders, NEW g \in gens[s] PROVE g.bucket <= now'
      BY <2>2, <3>1 DEF IInv, ClockInv, TypeOK, Generation
    <3>3. ASSUME NEW s \in Senders, draft[s] # None PROVE draft[s].bucket <= now'
      BY <2>2, <3>1, <3>3 DEF IInv, ClockInv, TypeOK, Generation
    <3> QED
      BY <3>2, <3>3 DEF ClockInv
  <2> QED
    BY <2>3, <2>4, <2>5 DEF IInv
<1> QED
  BY <1>1, <1>2, <1>3 DEF Next

(* The inductive invariant holds in every reachable state. *)
THEOREM Invariance == Spec => []IInv
  BY InitInv, InvStep, PTL DEF Spec

(* Type correctness of the handshake's state. *)
THEOREM TypeCorrect == Spec => []TypeOK
<1>1. IInv => TypeOK
  BY DEF IInv
<1> QED
  BY <1>1, Invariance, PTL

(* A confirmed receiver holds the session its sender is locked to, for any
   number of receivers racing for it: verify_claim against match_confirm. *)
THEOREM AgreementHolds == Spec => []Agreement
<1>1. IInv => Agreement
  BY DEF IInv, Agreement, SessionInv
<1> QED
  BY <1>1, Invariance, PTL

(* No SPAKE2 run is on offer after a claim took it, whatever the budget, the
   number of generations and the order of claims, rotations and refreshes. *)
THEOREM SingleUseHolds == Spec => []SingleUse
<1>1. IInv => SingleUse
  <2> SUFFICES ASSUME IInv, NEW s \in Senders
               PROVE  /\ \A g \in gens[s] : g.run \notin spent[s]
                      /\ \A g, h \in gens[s] : g.run = h.run /\ g.run # None => g = h
    BY DEF SingleUse
  <2>1. None \notin spent[s]
    BY NoneAssumption DEF IInv, TypeOK
  <2> QED
    BY <2>1 DEF IInv, RunInv
<1> QED
  BY <1>1, Invariance, PTL

(* A PIN displayed before a refresh never authenticates after it. *)
THEOREM RefreshRetiresHolds == Spec => []RefreshRetires
<1>1. IInv => RefreshRetires
  BY DEF IInv, PinInv, RefreshRetires
<1> QED
  BY <1>1, Invariance, PTL

(* The code gate opens only for the receiver whose screen shows the code of
   the locked session. *)
THEOREM GateHolds == Spec => []GateOnlyForConfirmed
<1>1. IInv => GateOnlyForConfirmed
  BY DEF IInv, SessionInv, AfterGate, GateOnlyForConfirmed
<1> QED
  BY <1>1, Invariance, PTL

(* A receiver answers only the offer of the sender it is confirmed with, made
   after the code gate. *)
THEOREM AnswersOwnOfferHolds == Spec => []AnswersOwnOffer
<1>1. IInv => AnswersOwnOffer
  BY DEF IInv, SessionInv, AnswersOwnOffer
<1> QED
  BY <1>1, Invariance, PTL

-----------------------------------------------------------------------------
(* The guessing meter. *)

(* What a PIN has left and what was granted against it make up its limit, from
   the draft on; nothing is granted against a PIN that was never drawn. *)
Meter(s) ==
  /\ IsFiniteSet(spent[s])
  /\ \A e \in spent[s] : e.pin \in drawn
  /\ draft[s] # None => draft[s].budget = VerifyLimit /\ SpentOn(s, draft[s].pin) = {}
  /\ \A g \in gens[s] : g.budget + Cardinality(SpentOn(s, g.pin)) = VerifyLimit
  /\ \A p \in Pins : Cardinality(SpentOn(s, p)) <= VerifyLimit

MeterInv == \A s \in Senders : Meter(s)

(* What is granted against a PIN is finitely much. *)
LEMMA SpentCount ==
  ASSUME NEW s \in Senders, Meter(s), NEW p
  PROVE  IsFiniteSet(SpentOn(s, p)) /\ Cardinality(SpentOn(s, p)) \in Nat
<1>1. SpentOn(s, p) \subseteq spent[s]
  BY DEF SpentOn
<1> QED
  BY <1>1, FS_Subset, FS_CardinalityType DEF Meter

(* The meter reads as it did where a sender's grants are those it had and its
   generations are of the PINs and budgets it had. *)
LEMMA MeterKeeps ==
  ASSUME NEW s \in Senders, Meter(s), drawn \subseteq drawn', spent'[s] = spent[s],
         draft'[s] \in {None, draft[s]}
           \/ (draft'[s].budget = VerifyLimit /\ draft'[s].pin \notin drawn),
         \A h \in gens'[s] :
           \/ \E g \in gens[s] : g.pin = h.pin /\ g.budget = h.budget
           \/ draft[s] # None /\ h = draft[s]
  PROVE  Meter(s)'
<1>1. \A p : SpentOn(s, p)' = SpentOn(s, p)
  BY DEF SpentOn
<1>2. ASSUME NEW p, p \notin drawn PROVE SpentOn(s, p) = {}
  BY <1>2 DEF SpentOn, Meter
<1>3. draft'[s] # None => draft'[s].budget = VerifyLimit /\ SpentOn(s, draft'[s].pin) = {}
  BY <1>2 DEF Meter
<1>4. ASSUME NEW h \in gens'[s] PROVE h.budget + Cardinality(SpentOn(s, h.pin)) = VerifyLimit
  <2>1. ASSUME NEW g \in gens[s], g.pin = h.pin, g.budget = h.budget
        PROVE  h.budget + Cardinality(SpentOn(s, h.pin)) = VerifyLimit
    BY <2>1 DEF Meter
  <2>2. CASE draft[s] # None /\ h = draft[s]
    <3>1. h.budget = VerifyLimit /\ Cardinality(SpentOn(s, h.pin)) = 0
      BY <2>2, FS_EmptySet DEF Meter
    <3> QED
      BY <3>1, LimitsAssumption
  <2> QED
    BY <2>1, <2>2
<1>5. /\ IsFiniteSet(spent'[s])
      /\ \A e \in spent'[s] : e.pin \in drawn'
      /\ \A p \in Pins : Cardinality(SpentOn(s, p)) <= VerifyLimit
  BY DEF Meter
<1> QED
  BY <1>1, <1>3, <1>4, <1>5 DEF Meter

(* A claim taken is one more grant against its PIN, and one less left. *)
LEMMA MeterCharges ==
  ASSUME IInv, NEW s \in Senders, Meter(s), NEW c \in posted, SpendElement(s, c)
  PROVE  Meter(s)'
<1> USE DEF IInv
<1>1. PICK g, h :
        /\ g \in gens[s] /\ Routes(g, c)
        /\ gens' = [gens EXCEPT ![s] = (@ \ {g}) \cup {h}]
        /\ h = Consumed(g)
  BY DEF SpendElement
<1>2. /\ g.run = c.target /\ g.run # None /\ g.pin \in Pins /\ g.budget \in Nat \ {0}
      /\ h.pin = g.pin /\ h.budget = g.budget - 1
  BY <1>1, NoneAssumption DEF Routes, Consumed, TypeOK, Claim, Generation
<1>3. /\ gens'[s] = (gens[s] \ {g}) \cup {h}
      /\ spent'[s] = spent[s] \cup {c.target}
      /\ UNCHANGED <<draft, drawn>> /\ draft[s] = None
  BY <1>1 DEF SpendElement, Delivers, TypeOK, PcInv
<1>4. c.target \notin spent[s] /\ c.target.pin = g.pin /\ g.pin \in drawn
  BY <1>1, <1>2 DEF RunInv, PinInv
<1>5. SpentOn(s, g.pin)' = SpentOn(s, g.pin) \cup {c.target}
  BY <1>3, <1>4 DEF SpentOn
<1>6. \A p : p # g.pin => SpentOn(s, p)' = SpentOn(s, p)
  BY <1>3, <1>4 DEF SpentOn
<1>7. PICK n \in Nat : n = Cardinality(SpentOn(s, g.pin))
  BY SpentCount
<1>8. Cardinality(SpentOn(s, g.pin))' = n + 1
  <2>1. IsFiniteSet(SpentOn(s, g.pin)) /\ c.target \notin SpentOn(s, g.pin)
    BY <1>4, SpentCount DEF SpentOn
  <2>2. Cardinality(SpentOn(s, g.pin) \cup {c.target}) = n + 1
    BY <1>7, <2>1, FS_AddElement
  <2> QED
    BY <1>5, <2>2
<1>9. g.budget + n = VerifyLimit
  BY <1>1, <1>7 DEF Meter
<1>10. ASSUME NEW f \in gens'[s] PROVE f.budget + Cardinality(SpentOn(s, f.pin)') = VerifyLimit
  <2>1. CASE f = h
    BY <1>2, <1>8, <1>9, <2>1
  <2>2. CASE f \in gens[s] /\ f # g
    <3>1. f.pin # g.pin
      BY <1>1, <2>2 DEF RunInv
    <3> QED
      BY <1>6, <2>2, <3>1 DEF Meter
  <2> QED
    BY <1>3, <2>1, <2>2
<1>11. ASSUME NEW p \in Pins PROVE Cardinality(SpentOn(s, p)') <= VerifyLimit
  <2>1. CASE p = g.pin
    BY <1>2, <1>8, <1>9, <2>1
  <2>2. CASE p # g.pin
    BY <1>6, <2>2 DEF Meter
  <2> QED
    BY <2>1, <2>2
<1>12. IsFiniteSet(spent'[s]) /\ \A e \in spent'[s] : e.pin \in drawn'
  BY <1>3, <1>4, FS_AddElement DEF Meter
<1> QED
  BY <1>3, <1>10, <1>11, <1>12 DEF Meter

(* What a sender step does to the grants, the draft and the generations. *)
LEMMA MeterStep ==
  ASSUME IInv, MeterInv, NEW s \in Senders, SenderNext(s) PROVE MeterInv'
<1> USE DEF IInv
<1>1. ASSUME NEW t \in Senders \ {s}, drawn \subseteq drawn', spent'[t] = spent[t] PROVE Meter(t)'
  <2>1. gens'[t] = gens[t] /\ draft'[t] = draft[t]
    BY GenerationStep, DraftStep
  <2> QED
    BY <1>1, <2>1, MeterKeeps DEF MeterInv
<1>2. CASE Publishes(s)
  <2>1. PICK p \in Pins, lands \in BOOLEAN :
          /\ MintPin(s, p, lands)
          /\ UNCHANGED gens \/ gens' = [gens EXCEPT ![s] = {}]
    BY <1>2, MintCases
  <2>2. drawn \subseteq drawn' /\ p \notin drawn /\ UNCHANGED spent
    BY <2>1 DEF MintPin
  <2>3. draft'[s].budget = VerifyLimit /\ draft'[s].pin = p
    BY <2>1 DEF MintPin, TypeOK
  <2>4. gens'[s] \subseteq gens[s]
    BY <2>1 DEF TypeOK
  <2>5. Meter(s)'
    BY <2>2, <2>3, <2>4, MeterKeeps DEF MeterInv
  <2> QED
    BY <1>1, <2>2, <2>5 DEF MeterInv
<1>3. ASSUME NEW c \in posted, SpendElement(s, c) PROVE MeterInv'
  <2>1. drawn' = drawn /\ \A t \in Senders \ {s} : spent'[t] = spent[t]
    BY <1>3 DEF SpendElement, TypeOK
  <2>2. Meter(s)'
    BY <1>3, MeterCharges DEF MeterInv
  <2> QED
    BY <1>1, <2>1, <2>2 DEF MeterInv
<1>4. ASSUME NEW lands \in BOOLEAN, ReplaceElement(s, lands) PROVE MeterInv'
  <2>1. PICK g, e, h :
          /\ g \in gens[s]
          /\ gens' = [gens EXCEPT ![s] = (@ \ {g}) \cup {h}]
          /\ h = Restocked(g, e)
    BY <1>4 DEF ReplaceElement
  <2>2. h.pin = g.pin /\ h.budget = g.budget /\ gens'[s] = (gens[s] \ {g}) \cup {h}
    BY <2>1 DEF Restocked, TypeOK
  <2>3. UNCHANGED <<drawn, spent, draft>>
    BY <1>4 DEF ReplaceElement
  <2>4. Meter(s)'
    BY <2>1, <2>2, <2>3, MeterKeeps DEF MeterInv
  <2> QED
    BY <1>1, <2>3, <2>4 DEF MeterInv
<1>5. CASE \/ PublishedFresh(s) \/ PublishFailed(s) \/ WaitTimeout(s) \/ GateTimeout(s)
           \/ \E lands \in BOOLEAN : ConfirmFailed(s, lands) \/ OfferFailed(s, lands)
           \/ \E c \in posted : IgnoreClaim(s, c)
           \/ LockToReceiver(s) \/ LeaveStalled(s) \/ ReplacementDone(s)
           \/ ConfirmPublished(s) \/ PublishOffer(s) \/ \E r \in Receivers : EnterCode(s, r)
  <2>1. UNCHANGED <<drawn, spent>>
    BY <1>5 DEF PublishedFresh, PublishFailed, WaitTimeout, IgnoreClaim, LockToReceiver,
       LeaveStalled, ReplacementDone, ConfirmPublished, GateTimeout, PublishOffer,
       ConfirmFailed, OfferFailed, EnterCode, Advance, Fail
  <2>2. draft'[s] \in {None, draft[s]}
    BY <1>5 DEF PublishedFresh, PublishFailed, WaitTimeout, IgnoreClaim, LockToReceiver,
       LeaveStalled, ReplacementDone, ConfirmPublished, GateTimeout, PublishOffer,
       ConfirmFailed, OfferFailed, EnterCode, Advance, Fail, TypeOK
  <2>3. gens'[s] \subseteq gens[s] \/ (draft[s] # None /\ gens'[s] \subseteq gens[s] \cup {draft[s]})
    BY <1>5 DEF PublishedFresh, PublishFailed, WaitTimeout, IgnoreClaim, LockToReceiver,
       LeaveStalled, ReplacementDone, ConfirmPublished, GateTimeout, PublishOffer,
       ConfirmFailed, OfferFailed, EnterCode, Advance, Fail, TypeOK, PcInv
  <2>4. Meter(s)'
    BY <2>1, <2>2, <2>3, MeterKeeps DEF MeterInv
  <2> QED
    BY <1>1, <2>1, <2>4 DEF MeterInv
<1> QED
  BY <1>2, <1>3, <1>4, <1>5 DEF SenderNext, TakesClaim, FinishesClaim

LEMMA MeterHolds == Spec => []MeterInv
<1>1. Init => MeterInv
  <2> SUFFICES ASSUME Init, NEW s \in Senders PROVE Meter(s)
    BY DEF MeterInv
  <2>1. spent[s] = {} /\ gens[s] = {} /\ draft[s] = None
    BY DEF Init
  <2>2. \A p : SpentOn(s, p) = {}
    BY <2>1 DEF SpentOn
  <2>3. IsFiniteSet({}) /\ Cardinality({}) = 0 /\ 0 <= VerifyLimit
    BY FS_EmptySet, LimitsAssumption
  <2> QED
    BY <2>1, <2>2, <2>3 DEF Meter
<1>2. IInv /\ MeterInv /\ [Next]_vars => MeterInv'
  <2> SUFFICES ASSUME IInv, MeterInv, [Next]_vars PROVE MeterInv'
    OBVIOUS
  <2>1. CASE UNCHANGED <<drawn, spent, draft, gens>>
    BY <2>1, MeterKeeps DEF MeterInv
  <2> QED
    BY <2>1, MeterStep, ReceiverFrame DEF Next, Tick, senderVars, vars
<1> QED
  BY <1>1, <1>2, Invariance, PTL DEF Spec

(* No PIN ever grants more guesses than its limit, and what a generation has
   left is exact, whatever replacements, rotations and refreshes come between
   (verify_claim charges before it verifies). *)
THEOREM GuessBudgetHolds == Spec => []GuessBudget
<1>1. MeterInv => GuessBudget
  BY DEF MeterInv, Meter, GuessBudget
<1> QED
  BY MeterHolds, <1>1, PTL

-----------------------------------------------------------------------------
(* The buckets of claims. *)

(* All elements of a PIN are of the bucket it was minted in, those a claim in
   hand has taken included. *)
Dated(s) ==
  /\ \A g \in gens[s] : g.run # None => g.run.bucket = g.bucket
  /\ \A g \in gens[s], e \in spent[s] : e.pin = g.pin => e.bucket = g.bucket
  /\ draft[s] # None => draft[s].run.bucket = draft[s].bucket
  /\ handling[s] # None => handling[s].target \in spent[s]

DatedInv == \A s \in Senders : Dated(s)

LEMMA DatedStep ==
  ASSUME IInv, MeterInv, DatedInv, NEW s \in Senders, SenderNext(s) PROVE DatedInv'
<1> USE DEF IInv
<1>1. ASSUME NEW t \in Senders \ {s}, spent'[t] = spent[t], handling'[t] = handling[t]
      PROVE  Dated(t)'
  <2>1. gens'[t] = gens[t] /\ draft'[t] = draft[t]
    BY GenerationStep, DraftStep
  <2> QED
    BY <1>1, <2>1 DEF DatedInv, Dated
<1>2. CASE Publishes(s)
  <2>1. PICK p \in Pins, lands \in BOOLEAN :
          /\ MintPin(s, p, lands)
          /\ UNCHANGED gens \/ gens' = [gens EXCEPT ![s] = {}]
    BY <1>2, MintCases
  <2>2. UNCHANGED <<spent, handling>>
    BY <2>1 DEF MintPin
  <2>3. draft'[s].run.bucket = draft'[s].bucket
    BY <2>1 DEF MintPin, NewElement, TypeOK
  <2>4. gens'[s] \subseteq gens[s]
    BY <2>1 DEF TypeOK
  <2>5. Dated(s)'
    BY <2>2, <2>3, <2>4 DEF DatedInv, Dated
  <2> QED
    BY <1>1, <2>2, <2>5 DEF DatedInv
<1>3. ASSUME NEW c \in posted, SpendElement(s, c) PROVE DatedInv'
  <2>1. PICK g, h :
          /\ g \in gens[s] /\ Routes(g, c)
          /\ gens' = [gens EXCEPT ![s] = (@ \ {g}) \cup {h}]
          /\ h = Consumed(g)
    BY <1>3 DEF SpendElement
  <2>2. /\ g.run = c.target /\ g.run # None
        /\ h.pin = g.pin /\ h.bucket = g.bucket /\ h.run = None
    BY <2>1, NoneAssumption DEF Routes, Consumed, TypeOK, Claim
  <2>3. /\ gens'[s] = (gens[s] \ {g}) \cup {h} /\ spent'[s] = spent[s] \cup {c.target}
        /\ handling'[s] = c /\ draft' = draft
        /\ \A t \in Senders \ {s} : spent'[t] = spent[t] /\ handling'[t] = handling[t]
    BY <1>3, <2>1 DEF SpendElement, TypeOK
  <2>4. c.target.pin = g.pin /\ c.target.bucket = g.bucket
    BY <2>1, <2>2 DEF RunInv, DatedInv, Dated
  <2>5. \A f \in gens[s] : f.pin = g.pin => f = g
    BY <2>1 DEF RunInv
  <2>6. \A f \in gens'[s], e \in spent'[s] : e.pin = f.pin => e.bucket = f.bucket
    BY <2>1, <2>2, <2>3, <2>4, <2>5 DEF DatedInv, Dated
  <2>7. Dated(s)'
    BY <2>2, <2>3, <2>6 DEF DatedInv, Dated
  <2> QED
    BY <1>1, <2>3, <2>7 DEF DatedInv
<1>4. ASSUME NEW lands \in BOOLEAN, ReplaceElement(s, lands) PROVE DatedInv'
  <2>1. PICK g, e, h :
          /\ g \in gens[s] /\ e = NewElement(s, g.pin, g.bucket)
          /\ gens' = [gens EXCEPT ![s] = (@ \ {g}) \cup {h}]
          /\ h = Restocked(g, e)
    BY <1>4 DEF ReplaceElement
  <2>2. /\ h.pin = g.pin /\ h.bucket = g.bucket /\ h.run = e /\ e.bucket = g.bucket
        /\ gens'[s] = (gens[s] \ {g}) \cup {h}
    BY <2>1 DEF Restocked, NewElement, TypeOK
  <2>3. /\ UNCHANGED <<spent, draft>> /\ handling'[s] = None
        /\ \A t \in Senders \ {s} : handling'[t] = handling[t]
    BY <1>4 DEF ReplaceElement, TypeOK
  <2>4. Dated(s)'
    BY <2>1, <2>2, <2>3 DEF DatedInv, Dated
  <2> QED
    BY <1>1, <2>3, <2>4 DEF DatedInv
<1>5. CASE PublishedFresh(s)
  <2>1. draft[s] # None
    BY <1>5 DEF PublishedFresh, PcInv
  <2>2. /\ gens'[s] \subseteq gens[s] \cup {draft[s]} /\ draft'[s] = None
        /\ UNCHANGED <<spent, handling>>
    BY <1>5 DEF PublishedFresh, TypeOK
  <2>3. \A e \in spent[s] : e.pin # draft[s].pin
    BY <2>1 DEF MeterInv, Meter, SpentOn
  <2>4. Dated(s)'
    BY <2>1, <2>2, <2>3 DEF DatedInv, Dated
  <2> QED
    BY <1>1, <2>2, <2>4 DEF DatedInv
<1>6. CASE \/ PublishFailed(s) \/ WaitTimeout(s) \/ GateTimeout(s)
           \/ \E lands \in BOOLEAN : ConfirmFailed(s, lands) \/ OfferFailed(s, lands)
           \/ \E c \in posted : IgnoreClaim(s, c)
           \/ LockToReceiver(s) \/ LeaveStalled(s) \/ ReplacementDone(s)
           \/ ConfirmPublished(s) \/ PublishOffer(s) \/ \E r \in Receivers : EnterCode(s, r)
  <2>1. UNCHANGED spent /\ \A t \in Senders \ {s} : handling'[t] = handling[t]
    BY <1>6 DEF PublishFailed, WaitTimeout, IgnoreClaim, LockToReceiver,
       LeaveStalled, ReplacementDone, ConfirmPublished, GateTimeout, PublishOffer,
       ConfirmFailed, OfferFailed, EnterCode, Advance, Fail, TypeOK
  <2>2. /\ draft'[s] \in {None, draft[s]} /\ handling'[s] \in {None, handling[s]}
        /\ gens'[s] \subseteq gens[s]
    BY <1>6 DEF PublishFailed, WaitTimeout, IgnoreClaim, LockToReceiver,
       LeaveStalled, ReplacementDone, ConfirmPublished, GateTimeout, PublishOffer,
       ConfirmFailed, OfferFailed, EnterCode, Advance, Fail, TypeOK
  <2>3. Dated(s)'
    BY <2>1, <2>2 DEF DatedInv, Dated
  <2> QED
    BY <1>1, <2>1, <2>3 DEF DatedInv
<1> QED
  BY <1>2, <1>3, <1>4, <1>5, <1>6 DEF SenderNext, TakesClaim, FinishesClaim

(* A claim locks the transfer only while its PIN is active at that moment: the
   clock is read again after the verification (verify_claim). *)
THEOREM LocksActive == Spec => LocksOnlyActivePins
<1>1. Init => DatedInv
  BY DEF Init, DatedInv, Dated
<1>2. IInv /\ MeterInv /\ DatedInv /\ [Next]_vars => DatedInv'
  <2> SUFFICES ASSUME IInv, MeterInv, DatedInv, [Next]_vars PROVE DatedInv'
    OBVIOUS
  <2>1. CASE UNCHANGED <<spent, draft, gens, handling>>
    BY <2>1 DEF DatedInv, Dated
  <2> QED
    BY <2>1, DatedStep, ReceiverFrame DEF Next, Tick, senderVars, vars
<1>3. IInv /\ DatedInv /\ [Next]_vars
        => [\A s \in Senders : locked'[s] # locked[s] => IsActive(locked'[s].target.bucket)]_vars
  <2> SUFFICES ASSUME IInv, DatedInv, Next, NEW s \in Senders, locked'[s] # locked[s]
               PROVE  IsActive(locked'[s].target.bucket)
    OBVIOUS
  <2>1. ~ UNCHANGED locked
    OBVIOUS
  <2>2. PICK t \in Senders : SenderNext(t)
    BY <2>1, ReceiverFrame DEF Next, Tick, senderVars
  <2>3. LockToReceiver(t)
    BY <2>1, <2>2, MintCases DEF SenderNext, TakesClaim, FinishesClaim, MintPin, PublishedFresh,
       PublishFailed, WaitTimeout, IgnoreClaim, SpendElement, ReplaceElement, LeaveStalled,
       ReplacementDone, ConfirmPublished, GateTimeout, PublishOffer, ConfirmFailed, OfferFailed,
       EnterCode, Advance, Fail
  <2>4. t = s /\ locked'[s] = handling[s]
    BY <2>3 DEF LockToReceiver, IInv, TypeOK
  <2>5. PICK g \in gens[s] : Verifies(g, handling[s])
    BY <2>3, <2>4 DEF LockToReceiver
  <2>6. handling[s].target \in spent[s]
    BY <2>3, <2>4 DEF LockToReceiver, IInv, PcInv, DatedInv, Dated
  <2>7. handling[s].target.bucket = g.bucket /\ IsActive(g.bucket)
    BY <2>5, <2>6 DEF Verifies, DatedInv, Dated
  <2> QED
    BY <2>4, <2>7
<1> QED
  BY <1>1, <1>2, <1>3, Invariance, MeterHolds, PTL DEF Spec, LocksOnlyActivePins
=============================================================================
