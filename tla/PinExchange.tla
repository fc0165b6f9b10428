----------------------------- MODULE PinExchange -----------------------------
(***************************************************************************)
(* The PIN Exchange handshake of `ptransfer`: webrtc/nostr_sender.rs and   *)
(* webrtc/nostr_receiver.rs over the Nostr relays of signaling/nostr.rs,   *)
(* up to the WebRTC offer.                                                 *)
(*                                                                         *)
(* A sender rotates PINs.  Each PIN generation publishes a rendezvous that *)
(* carries one single-use SPAKE2 element; a receiver finds it through a    *)
(* hint that unrelated PINs share, claims it, and the first claim spends   *)
(* the element whatever its outcome.  A failed claim costs one unit of the *)
(* generation's budget and is answered by a replacement element, which     *)
(* honest receivers re-claim.  A verified claim locks the transfer, is     *)
(* confirmed, and opens it once the operator has typed the confirmation    *)
(* code the receiver displays.                                             *)
(*                                                                         *)
(* Cryptography is abstracted to what it tells apart: a SPAKE2 session is  *)
(* the claim it was derived by, both ends hold the same one exactly when   *)
(* the claim was made under the PIN of the element it targets, and a seal  *)
(* or a confirmation code matches exactly when the session does.  Time is  *)
(* the wall-clock PIN bucket, one clock for all parties.                   *)
(***************************************************************************)
EXTENDS Integers, FiniteSets

CONSTANTS
  Senders,             \* one member per `ptransfer send` run
  Receivers,           \* one member per `ptransfer receive` run
  Pins,
  HintOf,              \* the rendezvous hint a PIN's locator segment gives
  VerifyLimit,         \* CLAIM_VERIFY_LIMIT
  MaxClaimCandidates,  \* MAX_CLAIM_CANDIDATES
  MaxClaimAttempts,    \* MAX_CLAIM_ATTEMPTS
  MaxBucket,           \* bound on the clock
  RelayFaults,         \* may a publish be lost or refused?
  Timeouts,            \* may a wait run into its time limit?
  None

ASSUME LimitsAssumption ==
  /\ VerifyLimit \in Nat \ {0}
  /\ MaxClaimCandidates \in Nat \ {0}
  /\ MaxClaimAttempts \in Nat
  /\ MaxClaimCandidates <= MaxClaimAttempts
  /\ MaxBucket \in Nat
  /\ RelayFaults \in BOOLEAN
  /\ Timeouts \in BOOLEAN

(* A published rendezvous: the n-th SPAKE2 run of sender `from`, for a PIN
   minted in `bucket`, published in bucket `at`. *)
Element == [from : Senders, n : Nat, pin : Pins, bucket : Nat, at : Nat]

(* A claim by receiver `by`, who typed `pin`, against one element.  It also
   names the SPAKE2 session the two elements give. *)
Claim == [by : Receivers, pin : Pins, target : Element]

(* A retained PIN generation; `run` is None once a claim consumed it. *)
Generation ==
  [pin : Pins, bucket : Nat, run : Element \cup {None}, budget : Nat]

ASSUME NoneAssumption ==
  None \notin Element \cup Claim \cup Generation \cup Receivers \cup Senders \cup Pins

SenderPC == {"idle", "publishing", "waiting", "verifying", "republishing",
             "confirming", "gate", "offering", "offered", "failed", "dropped"}
ReceiverPC == {"idle", "searching", "awaiting", "confirmed", "expecting",
               "answering", "cancelled", "failed"}

VARIABLES
  now,       \* the wall-clock PIN bucket
  drawn,     \* PINs the random generator has handed out
  board,     \* rendezvous events the relays hold
  posted,    \* claim events the relays hold
  confirms,  \* confirm events the relays hold, each named by its session
  offers,    \* sealed offers the relays hold, each named by its session
  \* of a sender
  spc,       \* where it is
  gens,      \* `generations`
  draft,     \* the generation publish_fresh_pin is publishing, or None
  handling,  \* the claim verify_claim is working on, or None
  locked,    \* the verified claim, or None
  runs,      \* how many SPAKE2 runs it has started
  due,       \* the bucket of the next rotation tick
  seen,      \* `seen`
  shown,     \* PINs displayed so far
  retired,   \* history: PINs displayed before the last refresh
  spent,     \* history: elements whose run has been taken
  \* of a receiver
  rpc,       \* where it is
  rpin,      \* the PIN typed, or None
  rstart,    \* the bucket its hints were derived in
  claims,    \* `claims`
  attempts,  \* `claim_attempts`
  session    \* the confirmed session, or None

relayVars == <<board, posted, confirms, offers>>
senderVars == <<drawn, spc, gens, draft, handling, locked, runs, due, seen, shown, retired, spent>>
receiverVars == <<rpc, rpin, rstart, claims, attempts, session>>
vars == <<now, relayVars, senderVars, receiverVars>>

TypeOK ==
  /\ now \in Nat
  /\ drawn \subseteq Pins
  /\ board \subseteq Element
  /\ posted \subseteq Claim
  /\ confirms \subseteq Claim
  /\ offers \subseteq Claim
  /\ spc \in [Senders -> SenderPC]
  /\ gens \in [Senders -> SUBSET Generation]
  /\ draft \in [Senders -> Generation \cup {None}]
  /\ handling \in [Senders -> Claim \cup {None}]
  /\ locked \in [Senders -> Claim \cup {None}]
  /\ runs \in [Senders -> Nat]
  /\ due \in [Senders -> Nat]
  /\ seen \in [Senders -> SUBSET Claim]
  /\ shown \in [Senders -> SUBSET Pins]
  /\ retired \in [Senders -> SUBSET Pins]
  /\ spent \in [Senders -> SUBSET Element]
  /\ rpc \in [Receivers -> ReceiverPC]
  /\ rpin \in [Receivers -> Pins \cup {None}]
  /\ rstart \in [Receivers -> Nat]
  /\ claims \in [Receivers -> SUBSET Claim]
  /\ attempts \in [Receivers -> Nat]
  /\ session \in [Receivers -> Claim \cup {None}]

Init ==
  /\ now = 1
  /\ drawn = {}
  /\ board = {} /\ posted = {} /\ confirms = {} /\ offers = {}
  /\ spc = [s \in Senders |-> "idle"]
  /\ gens = [s \in Senders |-> {}]
  /\ draft = [s \in Senders |-> None]
  /\ handling = [s \in Senders |-> None]
  /\ locked = [s \in Senders |-> None]
  /\ runs = [s \in Senders |-> 0]
  /\ due = [s \in Senders |-> 0]
  /\ seen = [s \in Senders |-> {}]
  /\ shown = [s \in Senders |-> {}]
  /\ retired = [s \in Senders |-> {}]
  /\ spent = [s \in Senders |-> {}]
  /\ rpc = [r \in Receivers |-> "idle"]
  /\ rpin = [r \in Receivers |-> None]
  /\ rstart = [r \in Receivers |-> 0]
  /\ claims = [r \in Receivers |-> {}]
  /\ attempts = [r \in Receivers |-> 0]
  /\ session = [r \in Receivers |-> None]

-----------------------------------------------------------------------------
(* Time and hints. *)

(* is_pin_bucket_active: the current bucket and the one before it. *)
IsActive(bucket) == bucket = now \/ bucket + 1 = now

(* is_rendezvous_fresh: the same test, on the bucket of created_at. *)
IsFresh(e) == IsActive(e.at)

(* The hints receive_file_nostr derives from its PIN, once, when it starts. *)
Hints(r) == {<<HintOf[rpin[r]], b>> : b \in {rstart[r] - 1, rstart[r]}}
HintOfElement(e) == <<HintOf[e.pin], e.bucket>>

(* The wall clock enters the next bucket. *)
Tick ==
  /\ now < MaxBucket
  /\ now' = now + 1
  /\ UNCHANGED <<relayVars, senderVars, receiverVars>>

(* A publish stores the event on some relay, or on none: what the caller is
   told is decided by the action that follows. *)
Lands(lands) == lands \in IF RelayFaults THEN BOOLEAN ELSE {TRUE}
Store(lands, store, event) == IF lands THEN store \cup {event} ELSE store

-----------------------------------------------------------------------------
(* The sender: wait_for_verified_claim and what it calls. *)

NewElement(s, pin, bucket) ==
  [from |-> s, n |-> runs[s] + 1, pin |-> pin, bucket |-> bucket, at |-> now]

(* publish_fresh_pin up to the await of its publish. *)
MintPin(s, p, lands) ==
  /\ p \notin drawn
  /\ Lands(lands)
  /\ drawn' = drawn \cup {p}
  /\ runs' = [runs EXCEPT ![s] = @ + 1]
  /\ draft' = [draft EXCEPT ![s] =
       [pin |-> p, bucket |-> now, run |-> NewElement(s, p, now), budget |-> VerifyLimit]]
  /\ board' = Store(lands, board, NewElement(s, p, now))
  /\ spc' = [spc EXCEPT ![s] = "publishing"]
  /\ UNCHANGED <<now, posted, confirms, offers, handling, locked, seen, shown, spent, receiverVars>>

FirstPin(s, p, lands) ==
  /\ spc[s] = "idle"
  /\ MintPin(s, p, lands)
  /\ due' = [due EXCEPT ![s] = now + 1]
  /\ UNCHANGED <<gens, retired>>

(* `rotation.tick()`; a missed tick is made up for at once. *)
RotatePin(s, p, lands) ==
  /\ spc[s] = "waiting"
  /\ due[s] <= now
  /\ MintPin(s, p, lands)
  /\ due' = [due EXCEPT ![s] = @ + 1]
  /\ UNCHANGED <<gens, retired>>

(* The operator asks for another PIN: every retained generation is dropped. *)
BugRefreshKeepsOld(s, p, lands) ==
  /\ spc[s] = "waiting"
  /\ MintPin(s, p, lands)
  /\ due' = [due EXCEPT ![s] = now + 1]
  /\ retired' = [retired EXCEPT ![s] = shown[s]]
  /\ UNCHANGED gens
RefreshPin(s, p, lands) ==
  /\ spc[s] = "waiting"
  /\ MintPin(s, p, lands)
  /\ gens' = [gens EXCEPT ![s] = {}]
  /\ due' = [due EXCEPT ![s] = now + 1]
  /\ retired' = [retired EXCEPT ![s] = shown[s]]

(* The publish was accepted: the PIN is displayed and `register` retains the
   generation, with those of the earlier ones still active by now. *)
PublishedFresh(s) ==
  /\ spc[s] = "publishing"
  /\ draft[s].run \in board
  /\ shown' = [shown EXCEPT ![s] = @ \cup {draft[s].pin}]
  /\ gens' = [gens EXCEPT ![s] = {g \in @ \cup {draft[s]} : IsActive(g.bucket)}]
  /\ draft' = [draft EXCEPT ![s] = None]
  /\ spc' = [spc EXCEPT ![s] = "waiting"]
  /\ UNCHANGED <<now, relayVars, drawn, handling, locked, runs, due, seen, retired, spent, receiverVars>>

(* The sender ends with an error and drops everything it retained. *)
Fail(s, pc) ==
  /\ spc' = [spc EXCEPT ![s] = pc]
  /\ gens' = [gens EXCEPT ![s] = {}]
  /\ draft' = [draft EXCEPT ![s] = None]
  /\ UNCHANGED <<now, board, posted, drawn, handling, locked, runs, due, seen, shown, retired, spent, receiverVars>>

(* No relay acknowledged a fresh PIN's rendezvous: fatal, even if one holds
   it. *)
PublishFailed(s) ==
  /\ RelayFaults
  /\ spc[s] = "publishing"
  /\ Fail(s, "failed")
  /\ UNCHANGED <<confirms, offers>>

(* WAIT_FOR_RECEIVER_TIMEOUT. *)
WaitTimeout(s) ==
  /\ Timeouts
  /\ spc[s] = "waiting"
  /\ Fail(s, "failed")
  /\ UNCHANGED <<confirms, offers>>

(* The generation a claim is routed to: active, in budget, and offering the
   very element the claim targets. *)
Routes(g, c) ==
  /\ IsActive(g.bucket)
  /\ g.budget > 0
  /\ g.run = c.target

(* The next claim event the subscription delivers, whatever the order. *)
Delivers(s, c) ==
  /\ spc[s] = "waiting"
  /\ c \in posted
  /\ c.target.from = s
  /\ c \notin seen[s]
  /\ seen' = [seen EXCEPT ![s] = @ \cup {c}]

(* A claim whose target is spent, expired or dropped costs nothing. *)
IgnoreClaim(s, c) ==
  /\ Delivers(s, c)
  /\ \A g \in gens[s] : ~ Routes(g, c)
  /\ UNCHANGED <<now, relayVars, drawn, spc, gens, draft, handling, locked, runs, due, shown, retired, spent, receiverVars>>

(* The element is consumed and the budget charged before anything is
   verified. *)
BugRunNotTaken(g) == [g EXCEPT !.budget = @ - 1]
BugBudgetNotCharged(g) == [g EXCEPT !.run = None]
Consumed(g) ==
  [pin |-> g.pin, bucket |-> g.bucket, run |-> None, budget |-> g.budget - 1]

SpendElement(s, c) ==
  /\ Delivers(s, c)
  /\ \E g \in gens[s] :
       /\ Routes(g, c)
       /\ gens' = [gens EXCEPT ![s] = (@ \ {g}) \cup {Consumed(g)}]
  /\ spent' = [spent EXCEPT ![s] = @ \cup {c.target}]
  /\ handling' = [handling EXCEPT ![s] = c]
  /\ spc' = [spc EXCEPT ![s] = "verifying"]
  /\ UNCHANGED <<now, relayVars, drawn, draft, locked, runs, due, shown, retired, receiverVars>>

(* The seal opens under the session and the generation is still active: the
   clock is read again after the verification. *)
BugClockNotReadAgain(g, c) == g.pin = c.target.pin /\ c.pin = c.target.pin
BugSealNotChecked(g, c) == g.pin = c.target.pin /\ IsActive(g.bucket)
Verifies(g, c) ==
  /\ g.pin = c.target.pin
  /\ c.pin = c.target.pin
  /\ IsActive(g.bucket)

LockToReceiver(s) ==
  /\ spc[s] = "verifying"
  /\ \E g \in gens[s] : Verifies(g, handling[s])
  /\ locked' = [locked EXCEPT ![s] = handling[s]]
  /\ handling' = [handling EXCEPT ![s] = None]
  /\ gens' = [gens EXCEPT ![s] = {}]
  /\ spc' = [spc EXCEPT ![s] = "confirming"]
  /\ UNCHANGED <<now, relayVars, drawn, draft, runs, due, seen, shown, retired, spent, receiverVars>>

(* The generation the rejected claim consumed an element of. *)
Rejected(s, g) ==
  /\ spc[s] = "verifying"
  /\ g \in gens[s]
  /\ g.pin = handling[s].target.pin
  /\ ~ Verifies(g, handling[s])

Replaceable(g) == g.budget > 0 /\ IsActive(g.bucket)

(* A replacement keeps the PIN, the bucket and what is left of the budget. *)
Restocked(g, e) ==
  [pin |-> g.pin, bucket |-> g.bucket, run |-> e, budget |-> g.budget]

(* publish_replacement: a fresh element for the same PIN, claimable from
   before its publish is acknowledged. *)
ReplaceElement(s, lands) ==
  /\ Lands(lands)
  /\ \E g \in gens[s] :
       LET e == NewElement(s, g.pin, g.bucket) IN
       /\ Rejected(s, g)
       /\ Replaceable(g)
       /\ gens' = [gens EXCEPT ![s] = (@ \ {g}) \cup {Restocked(g, e)}]
       /\ board' = Store(lands, board, e)
  /\ runs' = [runs EXCEPT ![s] = @ + 1]
  /\ handling' = [handling EXCEPT ![s] = None]
  /\ spc' = [spc EXCEPT ![s] = "republishing"]
  /\ UNCHANGED <<now, posted, confirms, offers, drawn, draft, locked, due, seen, shown, retired, spent, receiverVars>>

(* Budget exhausted or bucket expired: the generation is left without an
   element until rotation replaces it. *)
LeaveStalled(s) ==
  /\ \E g \in gens[s] : Rejected(s, g) /\ ~ Replaceable(g)
  /\ handling' = [handling EXCEPT ![s] = None]
  /\ spc' = [spc EXCEPT ![s] = "waiting"]
  /\ UNCHANGED <<now, relayVars, drawn, gens, draft, locked, runs, due, seen, shown, retired, spent, receiverVars>>

(* The replacement's publish returned; an error is reported and forgotten. *)
ReplacementDone(s) ==
  /\ spc[s] = "republishing"
  /\ spc' = [spc EXCEPT ![s] = "waiting"]
  /\ UNCHANGED <<now, relayVars, drawn, gens, draft, handling, locked, runs, due, seen, shown, retired, spent, receiverVars>>

-----------------------------------------------------------------------------
(* The locked sender: confirm, code gate, offer. *)

(* The sender moves on with nothing but what it published changed. *)
Advance(s, from, to) ==
  /\ spc[s] = from
  /\ spc' = [spc EXCEPT ![s] = to]
  /\ UNCHANGED <<now, board, posted, drawn, gens, draft, handling, locked, runs, due, seen, shown, retired, spent, receiverVars>>

BugConfirmBeforeLock(s) ==
  /\ Advance(s, "verifying", "gate")
  /\ confirms' = confirms \cup {locked[s]}
  /\ UNCHANGED offers
ConfirmPublished(s) ==
  /\ Advance(s, "confirming", "gate")
  /\ confirms' = confirms \cup {locked[s]}
  /\ UNCHANGED offers

ConfirmFailed(s, lands) ==
  /\ RelayFaults
  /\ lands \in BOOLEAN
  /\ spc[s] = "confirming"
  /\ Fail(s, "failed")
  /\ confirms' = Store(lands, confirms, locked[s])
  /\ UNCHANGED offers

(* The operator types the code that receiver r displays, or displayed before it
   ended.  A code that does not match is asked for again, which changes nothing. *)
BugAnyCodeOpens(s, r) ==
  /\ session[r] # None
  /\ Advance(s, "gate", "offering")
  /\ UNCHANGED <<confirms, offers>>
EnterCode(s, r) ==
  /\ session[r] = locked[s]
  /\ Advance(s, "gate", "offering")
  /\ UNCHANGED <<confirms, offers>>

(* CONFIRM_CODE_ENTRY_TIMEOUT. *)
GateTimeout(s) ==
  /\ Timeouts
  /\ spc[s] = "gate"
  /\ Fail(s, "failed")
  /\ UNCHANGED <<confirms, offers>>

PublishOffer(s) ==
  /\ Advance(s, "offering", "offered")
  /\ offers' = offers \cup {locked[s]}
  /\ UNCHANGED confirms

OfferFailed(s, lands) ==
  /\ RelayFaults
  /\ lands \in BOOLEAN
  /\ spc[s] = "offering"
  /\ Fail(s, "dropped")
  /\ offers' = Store(lands, offers, locked[s])
  /\ UNCHANGED confirms

-----------------------------------------------------------------------------
(* The receiver: receive_file_nostr and what it calls. *)

(* The operator types a PIN some sender has displayed, perhaps long ago. *)
TypePin(r, p) ==
  /\ rpc[r] = "idle"
  /\ p \in UNION {shown[s] : s \in Senders}
  /\ rpin' = [rpin EXCEPT ![r] = p]
  /\ rstart' = [rstart EXCEPT ![r] = now]
  /\ rpc' = [rpc EXCEPT ![r] = "searching"]
  /\ UNCHANGED <<now, relayVars, senderVars, claims, attempts, session>>

(* What the relays return for the hints that is fresh; they may hold back
   some of it. *)
Found(r) == {e \in board : HintOfElement(e) \in Hints(r) /\ IsFresh(e)}
Fetched(r) == IF RelayFaults THEN SUBSET Found(r) ELSE {Found(r)}

(* find_rendezvous_candidates: newest first, one per transfer, a bounded
   number.  Events of one bucket have no order the model knows of. *)
IsSelection(C, found) ==
  LET transfers == {e.from : e \in found}
      chosen == {e.from : e \in C}
  IN /\ \A e, f \in C : e.from = f.from => e = f
     /\ \A e \in C, f \in found : f.from \in {e.from} \cup (transfers \ chosen) => f.at <= e.at
     /\ Cardinality(C) <= MaxClaimCandidates
     /\ chosen = transfers \/ Cardinality(C) = MaxClaimCandidates

ClaimOf(r, e) == [by |-> r, pin |-> rpin[r], target |-> e]

(* Every candidate is claimed; the wait goes on if one publish succeeded. *)
ClaimCandidates(r) ==
  /\ rpc[r] = "searching"
  /\ \E found \in Fetched(r) : \E C \in (SUBSET found) \ {{}} :
       /\ IsSelection(C, found)
       /\ claims' = [claims EXCEPT ![r] = {ClaimOf(r, e) : e \in C}]
       /\ attempts' = [attempts EXCEPT ![r] = Cardinality(C)]
       /\ \E P \in (SUBSET C) \ {{}} :
            /\ RelayFaults \/ P = C
            /\ posted' = posted \cup {ClaimOf(r, e) : e \in P}
  /\ rpc' = [rpc EXCEPT ![r] = "awaiting"]
  /\ UNCHANGED <<now, board, confirms, offers, senderVars, rpin, rstart, session>>

(* Nothing claimable was found: every refusal to start the wait. *)
NothingFound(r) ==
  /\ rpc[r] = "searching"
  /\ {} \in Fetched(r)
  /\ rpc' = [rpc EXCEPT ![r] = "failed"]
  /\ UNCHANGED <<now, relayVars, senderVars, rpin, rstart, claims, attempts, session>>

(* No relay acknowledged a claim, though it may hold it: fatal. *)
ClaimsRefused(r) ==
  /\ RelayFaults
  /\ rpc[r] = "searching"
  /\ \E found \in Fetched(r) : \E C \in (SUBSET found) \ {{}} :
       /\ IsSelection(C, found)
       /\ \E P \in SUBSET C : posted' = posted \cup {ClaimOf(r, e) : e \in P}
  /\ rpc' = [rpc EXCEPT ![r] = "failed"]
  /\ UNCHANGED <<now, board, confirms, offers, senderVars, rpin, rstart, claims, attempts, session>>

Targets(r) == {c.target : c \in claims[r]}

(* What try_reclaim claims: a fresh rendezvous under our hints, of a transfer
   already claimed, not claimed before, within the cap. *)
BugWrongCap(r, e) ==
  /\ e \in Found(r)
  /\ e.from \in {f.from : f \in Targets(r)}
  /\ e \notin Targets(r)
  /\ attempts[r] < MaxClaimCandidates
MayReclaim(r, e) ==
  /\ e \in Found(r)
  /\ e.from \in {f.from : f \in Targets(r)}
  /\ e \notin Targets(r)
  /\ attempts[r] < MaxClaimAttempts

(* The claim is kept even when its publish fails. *)
Reclaim(r, e, lands) ==
  /\ rpc[r] = "awaiting"
  /\ Lands(lands)
  /\ MayReclaim(r, e)
  /\ attempts' = [attempts EXCEPT ![r] = @ + 1]
  /\ claims' = [claims EXCEPT ![r] = @ \cup {ClaimOf(r, e)}]
  /\ posted' = Store(lands, posted, ClaimOf(r, e))
  /\ UNCHANGED <<now, board, confirms, offers, senderVars, rpc, rpin, rstart, session>>

(* match_confirm: some confirm opens under the session of claim c, whichever
   of the claims on that transfer it is. *)
BugAnyConfirmOfSender(r, c) ==
  /\ c \in claims[r]
  /\ c.target.from \in {d.target.from : d \in confirms}
BugFirstClaimOnly(r, c) ==
  /\ c \in claims[r] \cap confirms
  /\ \A d \in claims[r] : d.target.from = c.target.from => c.target.n <= d.target.n
MatchesConfirm(r, c) == c \in claims[r] \cap confirms

ReceiveConfirm(r, c) ==
  /\ rpc[r] = "awaiting"
  /\ MatchesConfirm(r, c)
  /\ session' = [session EXCEPT ![r] = c]
  /\ rpc' = [rpc EXCEPT ![r] = "confirmed"]
  /\ UNCHANGED <<now, relayVars, senderVars, rpin, rstart, claims, attempts>>

(* A receiver step that changes only where it is. *)
Move(r, from, to) ==
  /\ rpc[r] = from
  /\ rpc' = [rpc EXCEPT ![r] = to]
  /\ UNCHANGED <<now, relayVars, senderVars, rpin, rstart, claims, attempts, session>>

(* CONFIRM_TIMEOUT, or a poll that fails. *)
ConfirmTimeout(r) == Timeouts /\ Move(r, "awaiting", "failed")
AcceptFile(r) == Move(r, "confirmed", "expecting")
DeclineFile(r) == Move(r, "confirmed", "cancelled")
BugAnyOffer(r) == offers # {} /\ Move(r, "expecting", "answering")
ReceiveOffer(r) == session[r] \in offers /\ Move(r, "expecting", "answering")
OfferTimeout(r) == Timeouts /\ Move(r, "expecting", "failed")

-----------------------------------------------------------------------------
Publishes(s) ==
  \E p \in Pins, lands \in BOOLEAN :
    FirstPin(s, p, lands) \/ RotatePin(s, p, lands) \/ RefreshPin(s, p, lands)

TakesClaim(s) == \E c \in posted : IgnoreClaim(s, c) \/ SpendElement(s, c)

FinishesClaim(s) ==
  \/ LockToReceiver(s)
  \/ \E lands \in BOOLEAN : ReplaceElement(s, lands)
  \/ LeaveStalled(s)

SenderNext(s) ==
  \/ Publishes(s)
  \/ PublishedFresh(s) \/ PublishFailed(s) \/ WaitTimeout(s)
  \/ TakesClaim(s) \/ FinishesClaim(s) \/ ReplacementDone(s)
  \/ ConfirmPublished(s) \/ \E lands \in BOOLEAN : ConfirmFailed(s, lands)
  \/ \E r \in Receivers : EnterCode(s, r)
  \/ GateTimeout(s)
  \/ PublishOffer(s) \/ \E lands \in BOOLEAN : OfferFailed(s, lands)

Reclaims(r) == \E e \in board, lands \in BOOLEAN : Reclaim(r, e, lands)

ReceiverNext(r) ==
  \/ \E p \in Pins : TypePin(r, p)
  \/ ClaimCandidates(r) \/ NothingFound(r) \/ ClaimsRefused(r)
  \/ Reclaims(r)
  \/ \E c \in claims[r] : ReceiveConfirm(r, c)
  \/ ConfirmTimeout(r)
  \/ AcceptFile(r) \/ DeclineFile(r)
  \/ ReceiveOffer(r) \/ OfferTimeout(r)

Next ==
  \/ Tick
  \/ \E s \in Senders : SenderNext(s)
  \/ \E r \in Receivers : ReceiverNext(r)

Spec == Init /\ [][Next]_vars

(* What the event loops do without being asked: publishes return, delivered
   events are handled, subscribed events are delivered.  Nothing a person
   decides, no time limit and no clock is fair. *)
Fairness ==
  /\ \A s \in Senders :
       /\ WF_vars(PublishedFresh(s))
       /\ WF_vars(TakesClaim(s))
       /\ WF_vars(FinishesClaim(s))
       /\ WF_vars(ReplacementDone(s))
       /\ WF_vars(ConfirmPublished(s))
       /\ WF_vars(PublishOffer(s))
  /\ \A r \in Receivers :
       /\ WF_vars(ClaimCandidates(r))
       /\ WF_vars(Reclaims(r))
       /\ WF_vars(\E c \in claims[r] : ReceiveConfirm(r, c))
       /\ WF_vars(ReceiveOffer(r))

FairSpec == Spec /\ Fairness

-----------------------------------------------------------------------------
(* Safety. *)

(* A SPAKE2 run is finished at most once (RFC 9382, section 7): no generation
   offers an element a claim has already spent, and no two offer the same. *)
SingleUse ==
  \A s \in Senders :
    /\ \A g \in gens[s] : g.run \notin spent[s]
    /\ \A g, h \in gens[s] : g.run = h.run /\ g.run # None => g = h

SpentOn(s, p) == {e \in spent[s] : e.pin = p}

(* The online-guessing meter: what a PIN has left is its limit less the
   verifications claims have been granted against it, replacements, rotations
   and refreshes included. *)
GuessBudget ==
  \A s \in Senders :
    /\ \A g \in gens[s] : g.budget + Cardinality(SpentOn(s, g.pin)) = VerifyLimit
    /\ \A p \in Pins : Cardinality(SpentOn(s, p)) <= VerifyLimit

(* A confirmed receiver holds the session its sender is locked to, so no two
   receivers are ever confirmed by one sender. *)
Agreement ==
  \A r \in Receivers : session[r] # None =>
    /\ session[r].by = r
    /\ locked[session[r].target.from] = session[r]

(* A refresh stops every PIN displayed before it from authenticating, also for
   claims that were already on their way. *)
RefreshRetires ==
  \A s \in Senders : locked[s] # None => locked[s].pin \notin retired[s]

(* The transfer opens only for the receiver whose screen shows the code of the
   locked session, and that receiver stays the one it was confirmed to. *)
GateOnlyForConfirmed ==
  \A s \in Senders : spc[s] \in {"offering", "offered", "dropped"} =>
    session[locked[s].by] = locked[s]

(* A receiver answers an offer only of the sender it is confirmed with, after
   that sender's operator has passed the code gate. *)
AnswersOwnOffer ==
  \A r \in Receivers : rpc[r] = "answering" =>
    LET s == session[r].target.from IN
    /\ spc[s] \in {"offered", "dropped"}
    /\ locked[s] = session[r]

-----------------------------------------------------------------------------
(* Steps. *)

(* Locking reads the clock after the verification: a PIN whose bucket ran out
   between the routing of its claim and the lock does not authenticate. *)
LocksOnlyActivePins ==
  [][\A s \in Senders : locked'[s] # locked[s] => IsActive(locked'[s].target.bucket)]_vars

-----------------------------------------------------------------------------
(* Liveness, on relays that lose nothing and before any time limit. *)

(* Sender s can still be paired with over the PIN r typed. *)
Claimable(s, r) ==
  \E g \in gens[s] : g.pin = rpin[r] /\ IsActive(g.bucket) /\ g.budget > 0

(* A receiver that claimed its sender gets its session, however many junk
   claims came first, unless the PIN stops being claimable without a lock to
   this receiver or the receiver has spent its attempts. *)
Converges ==
  \A r \in Receivers, s \in Senders :
    rpc[r] = "awaiting" /\ s \in {e.from : e \in Targets(r)} /\ Claimable(s, r)
      ~> \/ session[r] # None
         \/ ~ Claimable(s, r) /\ (locked[s] # None => locked[s].by # r)
         \/ attempts[r] = MaxClaimAttempts

(* The receiver a sender locks to learns of it, whichever of its claims it was
   locked by. *)
LockIsConfirmed ==
  \A s \in Senders : locked[s] # None ~>
    locked[s] # None /\ session[locked[s].by] = locked[s]

-----------------------------------------------------------------------------
(* The handshake implements the abstract pairing. *)
ActivePins(s) == {g.pin : g \in {h \in gens[s] : IsActive(h.bucket)}}

Abstract == INSTANCE Pairing WITH
  issued <- shown,
  honoured <- [s \in Senders |-> ActivePins(s)],
  typed <- rpin,
  partner <- [s \in Senders |-> IF locked[s] = None THEN None ELSE locked[s].by],
  accepted <- [r \in Receivers |-> IF session[r] = None THEN None ELSE session[r].target.from],
  open <- {s \in Senders : spc[s] \in {"offering", "offered", "dropped"}}

(* Every behaviour of the handshake is a behaviour of Pairing: one partner per
   sender, over a PIN it still honours, accepted before it is opened. *)
ImplementsPairing == Abstract!Spec
=============================================================================
