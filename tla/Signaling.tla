------------------------------ MODULE Signaling ------------------------------
(***************************************************************************)
(* From the confirmed pairing to the open data channel of a PIN Exchange   *)
(* (webrtc/nostr_sender.rs, webrtc/nostr_receiver.rs, webrtc/common.rs,    *)
(* signaling/nostr.rs): each side gathers candidates, descriptions and     *)
(* candidates travel as separate events over relays that keep none of      *)
(* them, both sides publish again while they wait, and the receiver's      *)
(* worker takes the channel and its first messages out of the stack.       *)
(*                                                                         *)
(* Every publication of a signal is an event of its own (a fresh nonce),   *)
(* so `seen` filters copies of one event and not a signal published again. *)
(* `air` therefore holds contents.  Signals that are not sealed by the     *)
(* other side of the session are ignored and left out.  A description is   *)
(* taken to carry no candidates of its own.                                *)
(***************************************************************************)
EXTENDS Naturals, Sequences, FiniteSets

CONSTANTS
  Relays,
  Addresses,   \* the addresses of a device
  Loopback,
  MaxLost,     \* bound on the signals a working relay loses or a reader skips
  MaxSent,     \* bound on the messages sent first
  None

ASSUME LoopbackAssumption == Loopback \notin Addresses

VARIABLES
  pc,          \* where each side is
  online,      \* the relays each side has a socket to
  own,         \* the candidates each side has gathered
  reach,       \* those of them the other side can reach
  air,         \* signals published and not yet taken by each side
  queued,      \* `queued_candidates` of each side
  described,   \* has each side's stack the other's description?
  known,       \* the other's candidates each side's stack knows
  link,        \* "down" or "up"
  lost,
  \* the channel, from the sender to the receiver
  sent,        \* messages the sender has sent
  flight,      \* what is underway: 0 opens the channel, then messages 1, 2, ...
  opening,     \* OnOpen waits among the events of the receiver's stack
  reads,       \* messages waiting in the receiver's stack
  registered,  \* is the channel among the worker's `channels`?
  inbox        \* the channel's `message_rx`

signalVars == <<own, reach, air, queued, described, known, lost>>
channelVars == <<sent, flight, opening, reads, registered, inbox>>
vars == <<pc, online, signalVars, link, channelVars>>

Side == {"sender", "receiver"}
Other(x) == IF x = "sender" THEN "receiver" ELSE "sender"
Ended == {"open", "failed", "broken"}

Goto(x, st) == pc' = [pc EXCEPT ![x] = st]

\* The clearnet pool is used with any sockets or none, the onion pool with one.
AnyOpen(up) == up # {}
Opened(pool) == {up \in SUBSET Relays : pool = "anonymous" => AnyOpen(up)}

(* The pairing is done: the sender's operator has typed the code. *)
Init ==
  /\ pc = [x \in Side |-> IF x = "sender" THEN "gathering" ELSE "joining"]
  /\ \E pool \in {"standard", "anonymous"} : online \in [Side -> Opened(pool)]
  /\ own = [x \in Side |-> {}] /\ reach = own /\ air = own
  /\ queued = own /\ known = own
  /\ described = [x \in Side |-> FALSE]
  /\ link = "down" /\ lost = 0
  /\ sent = 0 /\ flight = <<>> /\ opening = FALSE /\ reads = <<>>
  /\ registered = FALSE /\ inbox = <<>>

-----------------------------------------------------------------------------
(* Candidates. *)

\* One socket per usable address, and a last resort.
Sockets(up) == IF up = {} THEN {Loopback} ELSE up

Host(a) == [kind |-> "host", at |-> a]
\* What a STUN server saw, for the sockets one answered in time.
Reflexive(answered) == {[kind |-> "reflexive", at |-> a] : a \in answered}

\* Which of them lead through to the other device is up to the networks.
Gather(x) ==
  \E up \in SUBSET Addresses : \E answered \in SUBSET up :
    LET found == {Host(a) : a \in Sockets(up)} \cup Reflexive(answered)
    IN  /\ own' = [own EXCEPT ![x] = found]
        /\ \E through \in SUBSET (found \ {Host(Loopback)}) :
             reach' = [reach EXCEPT ![x] = through]

GatherFirst ==
  /\ pc["sender"] = "gathering"
  /\ Gather("sender")
  /\ Goto("sender", "offering")
  /\ UNCHANGED <<online, air, queued, described, known, lost, link, channelVars>>

-----------------------------------------------------------------------------
(* The relays. *)

SocketOpens(x, r) ==
  /\ r \notin online[x] /\ pc[x] \notin Ended
  /\ online' = [online EXCEPT ![x] = @ \cup {r}]
  /\ UNCHANGED <<pc, signalVars, link, channelVars>>

\* The open sockets, or all of the pool if there is none.
Targets(x) == IF online[x] = {} THEN Relays ELSE online[x]

Signal(type, c) == [type |-> type, candidate |-> c]
Description(x) == Signal(IF x = "sender" THEN "offer" ELSE "answer", None)
Bundle(x) == {Description(x)} \cup {Signal("candidate", c) : c \in own[x]}

\* The side that reads has subscribed, and has not unsubscribed.
Listening(x) == pc[x] \notin Ended \cup {"joining", "gathering"}

\* A publication succeeds at one relay.  It arrives if that is one the other
\* side reads, while it reads: the relays do not keep these events.
Publish(x) ==
  LET y == Other(x)
      shared == Targets(x) \cap online[y] # {} /\ Listening(y)
  IN \E missed \in SUBSET Bundle(x) :
       /\ IF shared THEN lost + Cardinality(missed) <= MaxLost ELSE missed = Bundle(x)
       /\ lost' = IF shared THEN lost + Cardinality(missed) ELSE lost
       /\ air' = [air EXCEPT ![y] = @ \cup (Bundle(x) \ missed)]

\* The subscription's reader lags, and what it missed is skipped.
Skip(x, s) ==
  /\ s \in air[x] /\ pc[x] \notin Ended /\ lost < MaxLost
  /\ air' = [air EXCEPT ![x] = @ \ {s}]
  /\ lost' = lost + 1
  /\ UNCHANGED <<pc, online, own, reach, queued, described, known, link, channelVars>>

-----------------------------------------------------------------------------
(* A side of the session. *)

\* set_remote_description, and the candidates queued so far; a stack that has
\* the description refuses another, and the session ends.
Describe(x, st) ==
  IF described[x]
    THEN Goto(x, "broken") /\ UNCHANGED <<described, known, queued>>
    ELSE /\ described' = [described EXCEPT ![x] = TRUE]
         /\ known' = [known EXCEPT ![x] = @ \cup queued[x]]
         /\ queued' = [queued EXCEPT ![x] = {}]
         /\ Goto(x, st)

\* A stack without the description refuses a candidate, which is ignored.
AddCandidate(x, c) ==
  /\ known' = IF described[x] THEN [known EXCEPT ![x] = @ \cup {c}] ELSE known
  /\ UNCHANGED <<pc, described, queued>>

QueueCandidate(x, c) ==
  /\ queued' = [queued EXCEPT ![x] = @ \cup {c}]
  /\ UNCHANGED <<pc, described, known>>

BugEveryAnswer == TRUE
IsFirstAnswer == pc["sender"] = "awaiting"

BugOnlyEarlyCandidates(s) ==
  IF s.type = "answer" /\ IsFirstAnswer THEN Describe("sender", "connecting")
  ELSE IF s.type = "candidate" /\ IsFirstAnswer THEN QueueCandidate("sender", s.candidate)
  ELSE UNCHANGED <<pc, described, known, queued>>

HandleSenderSignal(s) ==
  IF s.type = "answer" /\ IsFirstAnswer THEN Describe("sender", "connecting")
  ELSE IF s.type = "candidate" /\ pc["sender"] = "awaiting" THEN QueueCandidate("sender", s.candidate)
  ELSE IF s.type = "candidate" /\ pc["sender"] = "connecting" THEN AddCandidate("sender", s.candidate)
  ELSE UNCHANGED <<pc, described, known, queued>>

\* Until the offer is there, and while the channel is awaited; between the two,
\* events wait.
HandleReceiverSignal(s) ==
  IF s.type = "offer" /\ pc["receiver"] = "waiting"
    THEN Goto("receiver", "answering") /\ UNCHANGED <<described, known, queued>>
  ELSE IF s.type = "candidate" /\ pc["receiver"] = "waiting" THEN QueueCandidate("receiver", s.candidate)
  ELSE IF s.type = "candidate" /\ pc["receiver"] = "connecting" THEN AddCandidate("receiver", s.candidate)
  ELSE UNCHANGED <<pc, described, known, queued>>

TakeSignal(x, s) ==
  /\ s \in air[x]
  /\ pc[x] \in {"awaiting", "waiting", "connecting"}
  /\ air' = [air EXCEPT ![x] = @ \ {s}]
  /\ IF x = "sender" THEN HandleSenderSignal(s) ELSE HandleReceiverSignal(s)
  /\ UNCHANGED <<online, own, reach, lost, link, channelVars>>

Subscribe ==
  /\ pc["receiver"] = "joining"
  /\ Goto("receiver", "waiting")
  /\ UNCHANGED <<online, signalVars, link, channelVars>>

Answer ==
  /\ pc["receiver"] = "answering"
  /\ Describe("receiver", "publishing")
  /\ Gather("receiver")
  /\ UNCHANGED <<online, air, lost, link, channelVars>>

\* First, and every few seconds until the answer, or until the channel.
PublishOffer ==
  /\ pc["sender"] \in {"offering", "awaiting"}
  /\ Publish("sender")
  /\ Goto("sender", "awaiting")
  /\ UNCHANGED <<online, own, reach, queued, described, known, link, channelVars>>

PublishAnswer ==
  /\ pc["receiver"] \in {"publishing", "connecting"}
  /\ Publish("receiver")
  /\ Goto("receiver", "connecting")
  /\ UNCHANGED <<online, own, reach, queued, described, known, link, channelVars>>

\* The side's peer connection goes, with all it knew.
Leave(x) ==
  /\ Goto(x, "failed")
  /\ own' = [own EXCEPT ![x] = {}] /\ reach' = [reach EXCEPT ![x] = {}]
  /\ queued' = [queued EXCEPT ![x] = {}] /\ known' = [known EXCEPT ![x] = {}]
  /\ described' = [described EXCEPT ![x] = FALSE]
  /\ UNCHANGED <<online, link, channelVars>>

\* One signal no relay accepts ends the session, and what arrived has arrived.
PublishFails(x) ==
  /\ pc[x] \in {"offering", "awaiting", "publishing"} \/ (x = "receiver" /\ pc[x] = "connecting")
  /\ Publish(x)
  /\ Leave(x)

\* Any other error, and every time limit.
Fail(x) ==
  /\ pc[x] \notin Ended
  /\ Leave(x)
  /\ air' = [air EXCEPT ![x] = {}]
  /\ UNCHANGED lost

-----------------------------------------------------------------------------
(* The connection. *)

Failed == {"failed", "broken"}
Alive(x) == pc[x] \notin Failed

\* One check that gets through is enough: it shows the other side its source.
Reaches(x) == known[x] \cap reach[Other(x)] # {}
Connect ==
  /\ link = "down"
  /\ \A x \in Side : described[x] /\ Alive(x)
  /\ \E x \in Side : Reaches(x)
  /\ link' = "up"
  /\ flight' = <<0>>
  /\ UNCHANGED <<pc, online, signalVars, sent, opening, reads, registered, inbox>>

\* The events of a side that has unsubscribed are nobody's.
Opens(x) ==
  /\ Goto(x, "open")
  /\ air' = [air EXCEPT ![x] = {}]
  /\ UNCHANGED <<online, own, reach, queued, described, known, lost, link, channelVars>>

SenderOpens == pc["sender"] = "connecting" /\ link = "up" /\ Opens("sender")
ChannelArrives == pc["receiver"] = "connecting" /\ registered /\ Opens("receiver")

SendFirst ==
  /\ pc["sender"] = "open" /\ sent < MaxSent
  /\ sent' = sent + 1
  /\ flight' = Append(flight, sent')
  /\ UNCHANGED <<pc, online, signalVars, link, opening, reads, registered, inbox>>

-----------------------------------------------------------------------------
(* The receiver's worker: events, then messages, then the next datagram. *)

IsDrained == ~ opening /\ reads = <<>>

\* Datagrams come through in order, as much of the stream in each as fits.
Datagram ==
  /\ Alive("receiver") /\ IsDrained
  /\ \E n \in 1 .. Len(flight) :
       LET new == SubSeq(flight, 1, n)
       IN  /\ flight' = SubSeq(flight, n + 1, Len(flight))
           /\ opening' = (Head(new) = 0)
           /\ reads' = IF Head(new) = 0 THEN Tail(new) ELSE new
  /\ UNCHANGED <<pc, online, signalVars, link, sent, registered, inbox>>

PollEvent ==
  /\ Alive("receiver") /\ opening
  /\ opening' = FALSE /\ registered' = TRUE
  /\ UNCHANGED <<pc, online, signalVars, link, sent, flight, reads, inbox>>

BugReadsFirst == Alive("receiver") /\ reads # <<>>
MayRead == Alive("receiver") /\ reads # <<>> /\ ~ opening

\* A message for a channel that is not registered is dropped.
PollRead ==
  /\ MayRead
  /\ reads' = Tail(reads)
  /\ inbox' = IF registered THEN Append(inbox, Head(reads)) ELSE inbox
  /\ UNCHANGED <<pc, online, signalVars, link, sent, flight, opening, registered>>

SideStep(x) ==
  \/ PublishFails(x) \/ Fail(x)
  \/ \E r \in Relays : SocketOpens(x, r)
  \/ \E s \in air[x] : TakeSignal(x, s) \/ Skip(x, s)

Next ==
  \/ GatherFirst \/ PublishOffer \/ SenderOpens \/ SendFirst
  \/ Subscribe \/ Answer \/ PublishAnswer \/ ChannelArrives
  \/ Connect \/ Datagram \/ PollEvent \/ PollRead
  \/ \E x \in Side : SideStep(x)

Spec == Init /\ [][Next]_vars

Candidates == [kind : {"host", "reflexive"}, at : Addresses \cup {Loopback}]
Signals == [type : {"offer", "answer"}, candidate : {None}]
           \cup [type : {"candidate"}, candidate : Candidates]

(* Both programs run on, the subscription is read in order, a relay's socket
   opens at last and the network carries what ICE sends.  Nothing is assumed of
   errors and time limits. *)
Fairness ==
  /\ WF_vars(GatherFirst) /\ WF_vars(PublishOffer) /\ WF_vars(SenderOpens)
  /\ WF_vars(Subscribe) /\ WF_vars(Answer) /\ WF_vars(PublishAnswer) /\ WF_vars(ChannelArrives)
  /\ WF_vars(Connect) /\ WF_vars(Datagram) /\ WF_vars(PollEvent) /\ WF_vars(PollRead)
  /\ \A x \in Side :
       /\ \A r \in Relays : WF_vars(SocketOpens(x, r))
       /\ \A s \in Signals : WF_vars(TakeSignal(x, s))

FairSpec == Spec /\ Fairness

-----------------------------------------------------------------------------
(* Once the receiver answers, the channel opens on both sides unless one of
   them gives up, whatever signals are lost and in whatever order they come:
   as long as the sender can reach one of the receiver's candidates, which are
   published until the channel is there, or the receiver knows one of the
   sender's that it can reach (next_event, publish_answer_and_candidates,
   handle_sender_signal).  The sender's own candidates are published no more
   once it has the answer. *)
Connectable ==
  pc["receiver"] = "connecting" /\ (reach["receiver"] # {} \/ Reaches("receiver"))
Connects ==
  Connectable ~> ((\A x \in Side : pc[x] = "open") \/ (\E x \in Side : ~ Alive(x)))

(* Signals published again never end a session: they are new events, `seen`
   does not know them, and a stack that has the other's description refuses a
   second one with an error. *)
RepeatsAreHarmless == \A x \in Side : pc[x] # "broken"

(* The receiver gets the sender's first messages from the first on and without
   a gap, although they may come with the datagram that opens the channel, and
   messages for a channel the worker has not registered are dropped. *)
FirstMessagesArrive ==
  /\ Len(inbox) <= sent
  /\ \A i \in 1 .. Len(inbox) : inbox[i] = i
=============================================================================
