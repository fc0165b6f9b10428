---------------------------- MODULE CodeExchange ----------------------------
(***************************************************************************)
(* Code Exchange (code/sender.rs, code/receiver.rs, code/relay.rs,         *)
(* code/control.rs): an offer code handed over by its operator, receivers  *)
(* that each answer it with a response, the one response pasted back and   *)
(* accepted, and the route: a direct channel, or the fallback the offer    *)
(* names, relays (RelayTransfer models what runs there) or an onion        *)
(* service (OnionTransfer), announced on a control channel of its own.     *)
(*                                                                         *)
(* The secret of a receiver exists on both sides once its response is      *)
(* accepted; what is sealed or derived under it is meant for that receiver *)
(* alone.  `tor send` and `tor receive` are the last route by itself, with *)
(* the address and the password carried by hand.  The operators, the       *)
(* network under a data channel and the relays are external.               *)
(***************************************************************************)
EXTENDS OnionTransfer

CONSTANT Receivers     \* who takes in a copy of the offer code

ASSUME CodeExchangeAssumption == Receivers \subseteq Clients /\ Receivers # {}

VARIABLES
  mode,       \* the fallback the sender's switch and the file allow: "anonymous",
              \* "relays" or "direct"; "by hand" for `tor send`
  named,      \* does the offer name relays?
  sender,     \* where send_file_code stands
  pool,       \* its relay sockets and the ring prepared on them
  tor,        \* each side's Tor client
  receiver,   \* where each receive_file_code stands
  responses,  \* the receivers that have shown a response to this offer
  accepted,   \* whose response the sender accepted
  channel,    \* the receiver the direct channel has reached
  expired,    \* TRANSFER_EXPIRATION_MS has passed
  announced,  \* is the address on the accepted receiver's control channel?
  held        \* who has the whole file, off the direct channel or the relays

exchangeVars == <<mode, named, sender, pool, tor, receiver, responses, accepted,
                  channel, expired, announced, held>>
vars == <<onionVars, exchangeVars>>

Self == "sender"       \* the sender's key in `tor`

Init ==
  /\ OnionInit
  /\ mode \in {"anonymous", "relays", "direct", "by hand"}
  /\ named = FALSE
  /\ sender = IF mode = "by hand" THEN "publishing" ELSE "preparing"
  /\ pool = IF mode = "relays" THEN "open" ELSE "none"
  /\ tor = [x \in Receivers \cup {Self} |->
              IF x = Self /\ mode = "anonymous" THEN "starting" ELSE "none"]
  /\ accepted = IF mode = "by hand" THEN CHOOSE r \in Receivers : TRUE ELSE None
  /\ receiver = [r \in Receivers |-> IF r = accepted THEN "awaiting" ELSE "idle"]
  /\ responses = {} /\ channel = None
  /\ expired = FALSE /\ announced = FALSE /\ held = {}

Move(r, st) == [receiver EXCEPT ![r] = st]

\* A bootstrap that is not wanted any more is aborted, wherever it stands.
Dropped(x) == IF tor[x] = "none" THEN tor ELSE [tor EXCEPT ![x] = "dropped"]

\* As it would be if only the preparation of the ring were stopped.
BugAbortsOnlyTheRing == pool

\* Fallback::discard: the ring's preparation is aborted and the pool shut.
Discard == IF pool = "open" THEN "shut" ELSE pool

SenderFails == sender' = "failed" /\ pool' = Discard

(***************************************************************************)
(* The exchange.                                                           *)
(***************************************************************************)

\* The relays are proven, or there is no fallback; then the code is shown.
Offer ==
  /\ sender = "preparing"
  /\ sender' = "offered"
  /\ named' \in {n \in BOOLEAN : n => pool = "open"}
  /\ pool' = IF named' THEN pool ELSE Discard
  /\ UNCHANGED <<onionVars, mode, tor, receiver, responses, accepted, channel,
                 expired, announced, held>>

\* The peer connection, its candidates or the code cannot be made: nothing is
\* shown, and what was started is left behind.
OfferFails ==
  /\ sender = "preparing"
  /\ sender' = "unprepared"
  /\ UNCHANGED <<onionVars, mode, named, pool, tor, receiver, responses, accepted,
                 channel, expired, announced, held>>

\* decode_offer: a code past its hour is refused; an anonymous one starts a
\* bootstrap at once.
TakeCode(r) ==
  /\ receiver[r] = "idle"
  /\ sender \notin {"preparing", "unprepared"} /\ mode # "by hand" /\ ~ expired
  /\ receiver' = Move(r, "deciding")
  /\ tor' = IF mode = "anonymous" THEN [tor EXCEPT ![r] = "starting"] ELSE tor
  /\ UNCHANGED <<onionVars, mode, named, sender, pool, responses, accepted, channel,
                 expired, announced, held>>

\* The destination: the file is declined, the answer cannot be made, or the
\* response is shown.
Respond(r, outcome) ==
  /\ receiver[r] = "deciding"
  /\ receiver' = Move(r, outcome)
  /\ tor' = IF outcome = "cancelled" THEN Dropped(r) ELSE tor
  /\ responses' = IF outcome = "waiting" THEN responses \cup {r} ELSE responses
  /\ UNCHANGED <<onionVars, mode, named, sender, pool, accepted, channel, expired,
                 announced, held>>

\* What an operator may paste: a response to this offer, as it was shown or
\* edited on the way, or to another one, or a code that is no response.
Pastes ==
  {[kind |-> "answer", from |-> r, whole |-> w] : r \in responses, w \in BOOLEAN}
  \cup {[kind |-> k, from |-> None, whole |-> TRUE] : k \in {"answer", "offer"}}

\* decode_response: the tag is that of this offer and of these very fields.
Answers(m) == m.kind = "answer" /\ m.from \in responses /\ m.whole

\* take_response: a refusal is asked about again until the code has expired.
\* What an accepted response carries may still not apply to the connection.
Paste(m) ==
  /\ sender = "offered"
  /\ IF ~ expired /\ Answers(m)
       THEN \/ sender' = "connecting" /\ accepted' = m.from /\ UNCHANGED pool
            \/ SenderFails /\ UNCHANGED accepted
     ELSE IF expired THEN SenderFails /\ UNCHANGED accepted
     ELSE UNCHANGED <<sender, pool, accepted>>
  /\ UNCHANGED <<onionVars, mode, named, tor, receiver, responses, channel, expired,
                 announced, held>>

\* The prompt itself fails: its input is at an end.
PromptFails ==
  /\ sender = "offered"
  /\ SenderFails
  /\ UNCHANGED <<onionVars, mode, named, tor, receiver, responses, accepted, channel,
                 expired, announced, held>>

\* The hour is over.
Expire ==
  /\ ~ expired /\ sender # "preparing" /\ mode # "by hand"
  /\ expired' = TRUE
  /\ UNCHANGED <<onionVars, mode, named, sender, pool, tor, receiver, responses,
                 accepted, channel, announced, held>>

\* A bootstrap ends.
Bootstrapped(x, outcome) ==
  /\ tor[x] = "starting"
  /\ tor' = [tor EXCEPT ![x] = outcome]
  /\ UNCHANGED <<onionVars, mode, named, sender, pool, receiver, responses, accepted,
                 channel, expired, announced, held>>

(***************************************************************************)
(* The direct route.                                                       *)
(***************************************************************************)

\* External: the candidates meet while both ends look, and the receiver's end
\* of the channel is the first to know.
ChannelArrives ==
  /\ sender = "connecting" /\ receiver[accepted] = "waiting"
  /\ channel' = accepted
  /\ receiver' = Move(accepted, "opening")
  /\ tor' = Dropped(accepted)
  /\ UNCHANGED <<onionVars, mode, named, sender, pool, responses, accepted, expired,
                 announced, held>>

\* The sender's end opens within its window.
SenderOpens ==
  /\ sender = "connecting" /\ channel = accepted
  /\ sender' = "direct"
  /\ tor' = Dropped(Self)
  /\ pool' = Discard
  /\ UNCHANGED <<onionVars, mode, named, receiver, responses, accepted, channel,
                 expired, announced, held>>

\* The window passes: FALLBACK_ATTEMPT_TIMEOUT, or the longer one with nothing
\* behind it.  The file is materialized for the relays.
SenderFallsBack ==
  /\ sender = "connecting"
  /\ \/ sender' = "relays" /\ named /\ UNCHANGED pool
     \/ sender' = "starting" /\ mode = "anonymous" /\ pool' = Discard
     \/ SenderFails /\ mode # "anonymous"
  /\ UNCHANGED <<onionVars, mode, named, tor, receiver, responses, accepted, channel,
                 expired, announced, held>>

\* wait_for_data_channel gives up, or a dead route is simulated: the fallback
\* is the offer's, and the response stays on the screen.
ReceiverFallsBack(r) ==
  /\ receiver[r] = "waiting"
  /\ receiver' = Move(r, IF mode = "anonymous" THEN "starting"
                         ELSE IF named THEN "relays" ELSE "failed")
  /\ UNCHANGED <<onionVars, mode, named, sender, pool, tor, responses, accepted,
                 channel, expired, announced, held>>

\* The receiver's end opens, or does not: it has no fallback any more.
ReceiverOpens(r, outcome) ==
  /\ receiver[r] = "opening"
  /\ outcome = "direct" => sender \in {"connecting", "direct"}
  /\ receiver' = Move(r, outcome)
  /\ UNCHANGED <<onionVars, mode, named, sender, pool, tor, responses, accepted,
                 channel, expired, announced, held>>

(***************************************************************************)
(* The file, off the direct channel or off the relays.                     *)
(***************************************************************************)

\* What the sender sends is sealed for the receiver whose response it holds.
ForReceiver(r) == accepted = r /\ sender \in {"direct", "relays"}

TakeFile(r) ==
  /\ ForReceiver(r) /\ receiver[r] = sender
  /\ held' = held \cup {r}
  /\ UNCHANGED <<onionVars, mode, named, sender, pool, tor, receiver, responses,
                 accepted, channel, expired, announced>>

\* The sender's end of either route: acknowledged, or anything else.
SenderEnds(outcome) ==
  /\ sender \in {"direct", "relays"}
  /\ outcome = "sent" => accepted \in held
  /\ sender' = outcome
  /\ pool' = Discard
  /\ UNCHANGED <<onionVars, mode, named, tor, receiver, responses, accepted, channel,
                 expired, announced, held>>

\* The receiver's end: the file is there, or the route fails.
ReceiverEnds(r, outcome) ==
  /\ receiver[r] \in {"direct", "relays"}
  /\ outcome = "ok" => r \in held
  /\ receiver' = Move(r, outcome)
  /\ UNCHANGED <<onionVars, mode, named, sender, pool, tor, responses, accepted,
                 channel, expired, announced, held>>

\* What surely ends a receiver there: the file, the stall of a channel or a
\* sender gone silent, and until its first message the code's own hour.
Bounded(r) ==
  receiver[r] = "direct" \/ r \in held \/ (accepted = r /\ sender = "relays") \/ expired

(***************************************************************************)
(* The anonymous fallback.                                                 *)
(***************************************************************************)

\* The sender's client is up, or the route is gone.
SenderReady ==
  /\ sender = "starting" /\ tor[Self] \in {"ready", "failed"}
  /\ sender' = IF tor[Self] = "ready" THEN "publishing" ELSE "failed"
  /\ UNCHANGED <<onionVars, mode, named, pool, tor, receiver, responses, accepted,
                 channel, expired, announced, held>>

\* serve_over_anonymous_relay: publish the service and open the channel, both
\* or neither, then say where the service is, and serve.
Announce ==
  /\ sender = "publishing"
  /\ sender' = "onion" /\ announced' = TRUE
  /\ Launch({accepted})
  /\ UNCHANGED <<mode, named, pool, tor, receiver, responses, accepted, channel,
                 expired, held>>

\* A step of it fails, perhaps with the announcement already out.
AnnounceFails ==
  /\ sender = "publishing"
  /\ sender' = "failed"
  /\ announced' \in BOOLEAN
  /\ UNCHANGED <<onionVars, mode, named, pool, tor, receiver, responses, accepted,
                 channel, expired, held>>

\* The receiver's client is up: it says hello on the control channel.
Hello(r) ==
  /\ receiver[r] = "starting" /\ tor[r] \in {"ready", "failed"}
  /\ receiver' \in {Move(r, st) : st \in {"failed"} \cup
                      (IF tor[r] = "ready" THEN {"awaiting"} ELSE {})}
  /\ UNCHANGED <<onionVars, mode, named, sender, pool, tor, responses, accepted,
                 channel, expired, announced, held>>

\* The announcement, fresh or out of the relays' backlog.
Hears(r) == announced /\ accepted = r

\* wait_for_announcement, and the one dial.
Hear(r) ==
  /\ receiver[r] = "awaiting" /\ Hears(r)
  /\ receiver' = Move(r, "onion")
  /\ IF server \in {"off", "sent", "failed"}
       THEN /\ client' = [client EXCEPT ![r] = [st |-> "failed", dials |-> 1]]
            /\ UNCHANGED <<server, holders, conn, requests, failures, stream,
                           cuts>>
       ELSE Dial(r)
  /\ UNCHANGED <<mode, named, sender, pool, tor, responses, accepted, channel,
                 expired, announced, held>>

\* The deadline of the session ends the wait.
NeverAnnounced(r) ==
  /\ receiver[r] = "awaiting" /\ expired
  /\ receiver' = Move(r, "failed")
  /\ UNCHANGED <<onionVars, mode, named, sender, pool, tor, responses, accepted,
                 channel, expired, announced, held>>

(***************************************************************************)
(* The whole.  A stranger comes by the address once it is announced.  The  *)
(* receiver of a code dials once and has no prompt left to answer; one     *)
(* that was given the address may decline, and may run its command again.  *)
(***************************************************************************)

Strangers == Clients \ Receivers

OnionServes == ServerStep /\ UNCHANGED exchangeVars

OnionReceives(r) ==
  /\ \/ ClientStep(r) \/ Decide(r, TRUE)
     \/ mode = "by hand" /\ Decide(r, FALSE)
  /\ held' = IF client'[r].st = "saved" THEN held \cup {r} ELSE held
  /\ UNCHANGED <<mode, named, sender, pool, tor, receiver, responses, accepted,
                 channel, expired, announced>>

DialAgain(r) ==
  /\ mode = "by hand" /\ receiver[r] = "onion"
  /\ Dial(r)
  /\ UNCHANGED exchangeVars

\* serve_one_transfer: a signal stops `tor send` wherever it is, without a
\* word of success.
ShutDown ==
  /\ mode = "by hand" /\ sender = "onion" /\ server \notin {"sent", "failed"}
  /\ sender' = "failed" /\ server' = "failed"
  /\ stream' = [c \in Clients |-> [stream[c] EXCEPT !.st = "closed"]]
  /\ UNCHANGED <<holders, conn, requests, failures, client, cuts, mode, named, pool,
                 tor, receiver, responses, accepted, channel, expired, announced,
                 held>>

Elsewhere ==
  /\ \/ \E c \in Strangers : Dial(c) \/ ClientStep(c) \/ StrangerLeaves(c)
     \/ \E c \in Clients : Cut(c)
  /\ UNCHANGED exchangeVars

SenderSteps ==
  \/ SenderFallsBack \/ SenderReady \/ Announce \/ AnnounceFails
  \/ \E o \in {"sent", "failed"} : SenderEnds(o)
  \/ \E o \in {"ready", "failed"} : Bootstrapped(Self, o)

ReceiverSteps(r) ==
  \/ ReceiverFallsBack(r)
  \/ \E o \in {"direct", "failed"} : ReceiverOpens(r, o)
  \/ Hello(r) \/ Hear(r) \/ NeverAnnounced(r)
  \/ \E o \in {"ready", "failed"} : Bootstrapped(r, o)

Next ==
  \/ Offer \/ OfferFails \/ PromptFails \/ Expire
  \/ \E m \in Pastes : Paste(m)
  \/ ChannelArrives \/ SenderOpens
  \/ SenderSteps
  \/ \E r \in Receivers :
       \/ TakeCode(r) \/ (\E o \in {"cancelled", "failed", "waiting"} : Respond(r, o))
       \/ ReceiverSteps(r) \/ TakeFile(r)
       \/ (\E o \in {"ok", "failed"} : ReceiverEnds(r, o))
       \/ OnionReceives(r) \/ DialAgain(r)
  \/ OnionServes \/ ShutDown
  \/ Elsewhere

\* Each side's tasks are scheduled and its timers fire, the code expires.
\* Nothing is assumed of operators, strangers and the network.
Fairness ==
  /\ WF_vars(Expire) /\ WF_vars(SenderSteps) /\ WF_vars(OnionServes)
  /\ \A r \in Receivers :
       /\ WF_vars(ReceiverSteps(r)) /\ WF_vars(OnionReceives(r))
       /\ WF_vars(Bounded(r) /\ \E o \in {"ok", "failed"} : ReceiverEnds(r, o))

Spec == Init /\ [][Next]_vars /\ Fairness

(***************************************************************************)
(* Properties.                                                             *)
(***************************************************************************)

\* How each side's command stands, over whichever route.
SenderOutcome ==
  IF sender = "sent" \/ (sender = "onion" /\ server = "sent") THEN "ok"
  ELSE IF sender \in {"unprepared", "failed"} \/ (sender = "onion" /\ server = "failed")
    THEN "failed"
  ELSE "active"

ReceiverOutcome(r) ==
  IF receiver[r] = "onion" /\ client[r].st \in Done THEN client[r].st
  ELSE IF receiver[r] \in Done THEN receiver[r] ELSE "active"

Has(c) == c \in held \/ client[c].st \in {"saved", "ok"}

\* Whatever route the two sides take, also when they disagree on it, the file
\* is handed over as Delivery promises: the sender reports success only when
\* the receiver whose response it accepted has the whole file.  A receiver
\* that may run its command again is never at its end.
TheDelivery == INSTANCE Delivery WITH
  held <- accepted # None /\ Has(accepted),
  sender <- SenderOutcome,
  receiver <- IF accepted = None \/ mode = "by hand" THEN "active"
              ELSE ReceiverOutcome(accepted)

ImplementsDelivery == TheDelivery!Spec

\* The file, and over the onion service even its description, only ever gets
\* to the receiver whose response the sender's operator pasted: not to another
\* holder of the code, nor to whoever found the address.
OnlyTheAccepted ==
  \A c \in Clients :
    (Has(c) \/ client[c].st \in {"prompt", "receiving"}) => c = accepted

\* "Every exit from here on lets go of the fallback" (send_file_code): once
\* the code was shown, no way the command ends leaves the relay sockets open.
ReleasesFallback ==
  SenderOutcome # "active" /\ sender # "unprepared" => pool # "open"

\* A receiver that responded ends, though its response may never be handed
\* over; a sender that accepted one ends, though strangers hold its service.
EveryoneReturns ==
  /\ \A r \in Receivers : r \in responses ~> ReceiverOutcome(r) # "active"
  /\ accepted # None ~> SenderOutcome # "active"
=============================================================================
